---- MODULE Spec2Model ----
(***************************************************************************)
(* Order-identity reconciliation of the broker adapters.                   *)
(*                                                                         *)
(* Motilal part (specification Spec): MotilalAdapter (command handlers and *)
(* resync loop, src/Motilal/motilal_adapter.py) and MotilalWebSocket       *)
(* (src/Motilal/motilal_websocket.py) run on three threads that share the  *)
(* dictionaries blitz_order_cache, blitz_to_motilal, motilal_to_blitz and  *)
(* blitz_order_action.  No lock is taken anywhere in these files, so a     *)
(* handler is split where another thread can run in between: at a blocking *)
(* REST call, and between the read of blitz_order_action and the publish.  *)
(*                                                                         *)
(* Zerodha part (specification SpecZ): ZerodhaAdapter command handlers     *)
(* (src/Zerodha/zerodha_adapter.py) and ZerodhaWebSocket._on_order_update  *)
(* (src/Zerodha/zerodha_websocket.py).                                     *)
(***************************************************************************)
EXTENDS Integers, Sequences, FiniteSets, TLC

\* ------------------------------------------------------------------ bounds
\* Commands and feed notifications the adapter receives in one run.
MaxInputs == 3

\* --------------------------------------------------------------- vocabulary
Null == "null"
LocalIds == {"L1", "L2"}
BrokerIds == {"B1", "B2"}
BrokerSeq == <<"B1", "B2">>
LocalSeq == <<"L1", "L2">>

PLACE_ORDER == "PLACE_ORDER"
MODIFY_ORDER == "MODIFY_ORDER"
CANCEL_ORDER == "CANCEL_ORDER"
Actions == {PLACE_ORDER, MODIFY_ORDER, CANCEL_ORDER}

\* Every orderstatus the status table names, and one it does not ("PENDING").
AllStatuses == {"CONFIRM", "TRADED", "PARTIAL", "CANCEL", "REJECTED", "ERROR", "PENDING"}
\* The orderstatus values the broker takes in the interleaving runs.
BrokerStatuses == {"CONFIRM", "TRADED", "REJECTED", "PENDING"}

VARIABLES
    blitz_order_cache,   \* LocalOrderId -> "none" | "request" (the snapshot)
    blitz_to_motilal,    \* LocalOrderId -> BrokerOrderId | Null
    motilal_to_blitz,    \* one dict, keyed by broker ids and (auto-learn) by tags
    blitz_order_action,  \* LocalOrderId -> PendingAction | Null
    websocket,           \* MotilalAdapter.websocket is set
    published,           \* events that reached the bus, in order
    brokerOrders,        \* the broker's order book: BrokerOrderId -> order | NoOrder
    cmd,                 \* command thread: the handler blocked in its REST call
    ws,                  \* feed thread: the update between read and publish
    rs,                  \* resync thread: position in one tick ("skipped": asleep
                         \* after a tick that returned at its first test)
    nInputs,             \* commands and notifications received so far
    order_api            \* MotilalAdapter.order_api is set (the login gave a token)

mvars == <<blitz_order_cache, blitz_to_motilal, motilal_to_blitz, blitz_order_action,
           websocket, published, brokerOrders, cmd, ws, rs, nInputs, order_api>>

VARIABLES
    zws,                 \* ZerodhaAdapter.ws is set (a ZerodhaWebSocket is running)
    order_request_data,  \* key -> LocalOrderId of the snapshot | Null; the keys are
                         \* broker order ids and, for "blitz_<id>", local ids
    blitz_to_zerodha,    \* LocalOrderId -> BrokerOrderId | Null
    zerodha_to_blitz,    \* BrokerOrderId -> LocalOrderId | Null
    pending_ws_updates,  \* BrokerOrderId -> parked update | NoUpdate
    order_state_cache,   \* BrokerOrderId -> last known state | NoPrev
    zpublished,          \* events that reached the bus, in order
    zbroker,             \* Zerodha's orders: BrokerOrderId -> LocalOrderId | Null
    zcmd,                \* command thread: the handler blocked in its REST call
    zlast,               \* BrokerOrderId -> the update last published | NoUpdate
    zInputs              \* commands and notifications received so far

zvars == <<zws, order_request_data, blitz_to_zerodha, zerodha_to_blitz,
           pending_ws_updates, order_state_cache, zpublished, zbroker, zcmd, zlast,
           zInputs>>

VARIABLES
    ids,                 \* the identity dictionaries a recording is applied to:
                         \* b2m (local -> broker), m2b (broker -> local) and req
                         \* (order_request_data: key -> snapshot's local id)
    lastRec              \* the recording applied last, or NoRec

VARIABLES
    raw,                 \* the broker payload and the pending action handed to a mapper
    mapped               \* what each mapper and each publishing path made of raw

VARIABLES
    command,             \* the inbound payload handed to process_command, with the
                         \* answer the REST call will give
    caller               \* the command loop: "idle", "waiting" (in process_command),
                         \* "returned" or "raised" (an exception reached it)

VARIABLES
    sock,                \* the MotilalWebSocket object: connection state, _should_run,
                         \* _auth_failed, _reconnect_count, the last reconnect wait
                         \* and what the last call of _on_message did
    life                 \* an adapter object through construction, start of the
                         \* feed and stop()

VARIABLES
    order_log,           \* an OrderLog object: field -> value, <<>> before the first
    serialized           \* what to_dict made of it: field -> value, <<>> before

lvars == <<order_log, serialized>>

VARIABLES
    snap                 \* one order followed through place, modify, cancel, feed,
                         \* resync and GET_ORDERS: identity, action, snapshot,
                         \* the broker's order, the event published last

VARIABLES
    limiter              \* the legacy Motilal adapter: run flag, rate window,
                         \* request queue and queue-processor thread

svars == <<snap, limiter>>

evars == <<command, caller>>

fvars == <<sock, life>>

pvars == <<ids, lastRec, raw, mapped, evars, fvars, lvars, svars>>

vars == <<mvars, zvars, pvars>>

\* ---------------------------------------------------------- pure functions

\* map_status with a final branch that takes any other status of a placed
\* order for an acknowledgement.
MapStatusAcksUnknown(status, action) ==
    IF status = Null THEN Null
    ELSE IF status = "TRADED" THEN "Filled"
    ELSE IF status = "PARTIAL" THEN "PartiallyFilled"
    ELSE IF status = "CANCEL" THEN "Cancelled"
    ELSE IF action = PLACE_ORDER THEN
        (IF status \in {"REJECTED", "ERROR"} THEN "Rejected" ELSE "New")
    ELSE IF action = MODIFY_ORDER THEN
        (IF status = "CONFIRM" THEN "Replaced"
         ELSE IF status \in {"REJECTED", "ERROR"} THEN "ReplaceRejected" ELSE Null)
    ELSE IF action = CANCEL_ORDER THEN
        (IF status = "CONFIRM" THEN "Cancelled"
         ELSE IF status \in {"REJECTED", "ERROR"} THEN "CancelRejected" ELSE Null)
    ELSE Null

\* map_status whose action tables name REJECTED but not ERROR.
MapStatusWithoutError(status, action) ==
    IF status = Null THEN Null
    ELSE IF status = "TRADED" THEN "Filled"
    ELSE IF status = "PARTIAL" THEN "PartiallyFilled"
    ELSE IF status = "CANCEL" THEN "Cancelled"
    ELSE IF action = PLACE_ORDER THEN
        (IF status = "CONFIRM" THEN "New"
         ELSE IF status = "REJECTED" THEN "Rejected" ELSE Null)
    ELSE IF action = MODIFY_ORDER THEN
        (IF status = "CONFIRM" THEN "Replaced"
         ELSE IF status = "REJECTED" THEN "ReplaceRejected" ELSE Null)
    ELSE IF action = CANCEL_ORDER THEN
        (IF status = "CONFIRM" THEN "Cancelled"
         ELSE IF status = "REJECTED" THEN "CancelRejected" ELSE Null)
    ELSE Null

\* MotilalMapper.map_status: str(None).upper() = "NONE" matches no branch.
MapStatus(status, action) ==
    IF status = Null THEN Null
    ELSE IF status = "TRADED" THEN "Filled"
    ELSE IF status = "PARTIAL" THEN "PartiallyFilled"
    ELSE IF status = "CANCEL" THEN "Cancelled"
    ELSE IF action = PLACE_ORDER THEN
        (IF status = "CONFIRM" THEN "New"
         ELSE IF status \in {"REJECTED", "ERROR"} THEN "Rejected" ELSE Null)
    ELSE IF action = MODIFY_ORDER THEN
        (IF status = "CONFIRM" THEN "Replaced"
         ELSE IF status \in {"REJECTED", "ERROR"} THEN "ReplaceRejected" ELSE Null)
    ELSE IF action = CANCEL_ORDER THEN
        (IF status = "CONFIRM" THEN "Cancelled"
         ELSE IF status \in {"REJECTED", "ERROR"} THEN "CancelRejected" ELSE Null)
    ELSE Null

\* The value of a key the payload does not carry (dict.get returns None).
Absent == -1

\* int(data.get(key, 0)) and (data.get(key) or 0): an absent key counts as 0.
OrZero(v) == IF v = Absent THEN 0 ELSE v

\* The fields of an OrderLog the mappers compute from the payload's status,
\* traded quantity and average price; NoLog is OrderLog() as constructed.
Log(status, ltq, ltp, cum, avg) ==
    [OrderStatus |-> status, LastTradedQuantity |-> ltq, LastTradedPrice |-> ltp,
     CumulativeQuantity |-> cum, OrderAverageTradedPrice |-> avg]
NoLog == Log(Null, 0, 0, 0, 0)

\* MotilalMapper.map_order of motilal_mapper.py (the feed's mapper):
\* LastTradedPrice = averageprice / 100 raises TypeError on an absent
\* averageprice.
MapOrder(data, action) ==
    IF data.averageprice = Absent
    THEN [raised |-> TRUE, log |-> NoLog]
    ELSE [raised |-> FALSE,
          log |-> Log(MapStatus(data.orderstatus, action),
                      OrZero(data.qtytradedtoday),
                      data.averageprice \div 100,
                      OrZero(data.qtytradedtoday),
                      data.averageprice)]

\* MotilalMapper.map_order of motilal_adapter.py (the resync's mapper):
\* LastTradedPrice = averageprice / 100 if averageprice else 0.
AdapterMapOrder(data, action) ==
    [raised |-> FALSE,
     log |-> Log(MapStatus(data.orderstatus, action),
                 OrZero(data.qtytradedtoday),
                 IF OrZero(data.averageprice) = 0 THEN 0 ELSE data.averageprice \div 100,
                 OrZero(data.qtytradedtoday),
                 OrZero(data.averageprice))]

\* What a path did with a payload: done (the path ran), pub (it published) and
\* the OrderLog it published.
Outcome(pub, log) == [done |-> TRUE, pub |-> pub, log |-> log]
NoOutcome == [done |-> FALSE, pub |-> FALSE, log |-> NoLog]

\* MotilalWebSocket._on_message from the mapping on: an exception of map_order
\* is caught by the handler's except clause, an OrderLog without OrderStatus
\* is skipped, any other is published.
OnMessageOutcome(data, action) ==
    LET m == MapOrder(data, action)
    IN  IF m.raised \/ m.log.OrderStatus = Null
        THEN Outcome(FALSE, NoLog)
        ELSE Outcome(TRUE, m.log)

\* resync_unpublished_orders for one order of the book: skipped when the
\* action is consumed, then mapped, skipped without OrderStatus, published.
ResyncOutcome(data, action) ==
    LET m == AdapterMapOrder(data, action)
    IN  IF action = Null \/ m.log.OrderStatus = Null
        THEN Outcome(FALSE, NoLog)
        ELSE Outcome(TRUE, m.log)

\* Identity recording that files the broker-to-local entry under the local id.
RecordPlacementUnderLocalKey(m, l, b) ==
    [m EXCEPT !.b2m[l] = b, !.m2b[l] = b]

\* The identity recording of MotilalAdapter.handle_place_order (success path
\* and rejection carrying a broker id): two dictionary assignments.
RecordPlacement(m, l, b) ==
    [m EXCEPT !.b2m[l] = b, !.m2b[b] = l]

\* The identity recording of ZerodhaAdapter._handle_place_order: the two
\* assignments, the snapshot filed under the broker id, the temporary key
\* "blitz_<id>" popped.
ZRecordPlacement(m, l, b) ==
    [m EXCEPT !.b2m[l] = b, !.m2b[b] = l, !.req[b] = l, !.req[l] = Null]

\* _map_order_ids of the legacy adapter: assigns both directions unless both
\* keys are already present.
MapOrderIds(m, l, b) ==
    IF m.b2m[l] = Null \/ m.m2b[b] = Null
    THEN [m EXCEPT !.b2m[l] = b, !.m2b[b] = l]
    ELSE m

\* The first test of resync_unpublished_orders with its sense inverted.
NoPendingActionInverted == \E l \in LocalIds : blitz_order_action[l] # Null

\* resync_unpublished_orders' first test: the map is empty or holds only None.
NoPendingAction == \A l \in LocalIds : blitz_order_action[l] = Null

\* RedisClient.publish with result ok: True and the message is on the channel,
\* or False (the connection raised) and it is not.
Publish(ev, ok) ==
    published' = (IF ok THEN Append(published, ev) ELSE published)

\* A published order event: the order it is for, its OrderStatus, and the path
\* that published it ("sync", "ws" or "resync").
Event(l, status, src) == [lid |-> l, status |-> status, src |-> src]

NoOrder == [owner |-> Null, status |-> Null, sent |-> FALSE]
FreeBrokerIds == {b \in BrokerIds : brokerOrders[b] = NoOrder}
NextBrokerId == IF "B1" \in FreeBrokerIds THEN "B1" ELSE "B2"

IdleCmd == [pc |-> "idle", lid |-> Null, bid |-> Null]
IdleWs == [pc |-> "idle", lid |-> Null, bid |-> Null, status |-> Null,
           dup |-> FALSE]
IdleRs == [pc |-> "idle", book |-> [b \in BrokerIds |-> Null], idx |-> 0,
           lid |-> Null, status |-> Null]

\* --------------------------------------------------------------------- Init
MDicts ==
    /\ blitz_order_cache = [l \in LocalIds |-> "none"]
    /\ blitz_to_motilal = [l \in LocalIds |-> Null]
    /\ motilal_to_blitz = [k \in BrokerIds \cup LocalIds |-> Null]
    /\ blitz_order_action = [l \in LocalIds |-> Null]
    /\ websocket = FALSE
    /\ published = <<>>
    /\ brokerOrders = [b \in BrokerIds |-> NoOrder]
    /\ cmd = IdleCmd
    /\ ws = IdleWs
    /\ rs = IdleRs
    /\ nInputs = 0

\* MotilalAdapter.__init__ after a login that gave a token.
MInit == MDicts /\ order_api = TRUE

\* ------------------------------------------------------------ environment

\* The states the broker moves an order to: a booked order is confirmed or
\* rejected, a confirmed one is confirmed again (after a change) or traded.
BrokerMoves(s) ==
    IF s = "PENDING" THEN {"CONFIRM", "REJECTED"}
    ELSE IF s = "CONFIRM" THEN {"CONFIRM", "TRADED"}
    ELSE {}

\* The broker changes the state of one of its orders; what the feed sends
\* from now on is a new notification.
BrokerStep(b, s) ==
    /\ brokerOrders[b] # NoOrder
    /\ s \in BrokerMoves(brokerOrders[b].status)
    /\ s = brokerOrders[b].status => brokerOrders[b].sent
    /\ brokerOrders' = [brokerOrders EXCEPT ![b].status = s, ![b].sent = FALSE]
    /\ UNCHANGED <<pvars, zvars, order_api, blitz_order_cache, blitz_to_motilal, motilal_to_blitz,
                   blitz_order_action, websocket, published, cmd, ws,
                   rs, nInputs>>

\* ------------------------------------------------------ adapter lifecycle

\* MotilalAdapter._start_websocket: the feed object gets the adapter's own
\* dictionaries (order_id_mapper is motilal_to_blitz itself).
StartWebsocket ==
    /\ ~websocket
    /\ websocket' = TRUE
    /\ UNCHANGED <<pvars, zvars, order_api, blitz_order_cache, blitz_to_motilal, motilal_to_blitz,
                   blitz_order_action, published, brokerOrders, cmd,
                   ws, rs, nInputs>>

\* ------------------------------------------------------- command handlers

\* The BlitzAppOrderIDs process_command receives: the client numbers its
\* orders, so a command names an order already placed or the next new one.
CommandIds ==
    {LocalSeq[i] : i \in {j \in 1..Len(LocalSeq) :
                            \A k \in 1..(j - 1) : blitz_order_cache[LocalSeq[k]] # "none"}}

\* ------------------------------------------------------------- login failed
\* A login that gave no token.
NotLoggedInIgnored == FALSE

\* "if not self.order_api: raise RuntimeError", the first statement of
\* handle_place_order, handle_modify_order and handle_cancel_order.
NotLoggedIn == ~order_api

\* A PLACE_ORDER, MODIFY_ORDER or CANCEL_ORDER command without a login: the
\* handler raises at once and process_command logs the error.
FailFast(a, l) ==
    /\ cmd.pc = "idle"
    /\ NotLoggedIn
    /\ a \in Actions
    /\ l \in LocalIds
    /\ nInputs < MaxInputs
    /\ nInputs' = nInputs + 1
    /\ UNCHANGED <<pvars, zvars, order_api, blitz_order_cache, blitz_to_motilal,
                   motilal_to_blitz, blitz_order_action, websocket, published,
                   brokerOrders, cmd, ws, rs>>

\* handle_place_order up to the blocking order_api.place_order call.  The
\* broker either books the order (a broker id exists from now on, and the
\* feed may report it before the REST call returns) or does not.
PlaceBegin(l, books, s0) ==
    /\ cmd.pc = "idle"
    /\ ~NotLoggedIn
    /\ s0 \in {"PENDING", "REJECTED"}
    /\ nInputs < MaxInputs
    /\ l \in CommandIds
    /\ blitz_order_cache[l] = "none"
    /\ books => FreeBrokerIds # {}
    /\ nInputs' = nInputs + 1
    /\ blitz_order_cache' = [blitz_order_cache EXCEPT ![l] = "request"]
    /\ blitz_order_action' = [blitz_order_action EXCEPT ![l] = PLACE_ORDER]
    /\ brokerOrders' = (IF books
                        THEN [brokerOrders EXCEPT
                                ![NextBrokerId] = [owner |-> l, status |-> s0,
                                                   sent |-> FALSE]]
                        ELSE brokerOrders)
    /\ cmd' = [pc |-> "place", lid |-> l, bid |-> (IF books THEN NextBrokerId ELSE Null)]
    /\ UNCHANGED <<pvars, zvars, order_api, blitz_to_motilal, motilal_to_blitz, websocket, published,
                   ws, rs>>

\* The outcomes of the REST call of a place: "ok" (status SUCCESS with the broker
\* id), "err_id" (raised, the error payload carries the broker id), "err"
\* (raised, no broker id), "empty" (empty body: place_order returns an ERROR
\* dictionary without raising, which the handler takes for an acceptance).
PlaceOutcomes ==
    IF cmd.bid = Null THEN {"err", "empty"}
    ELSE IF brokerOrders[cmd.bid].status = "REJECTED" THEN {"ok", "err_id"}
    ELSE {"ok"}

\* handle_place_order from the return of the REST call.
PlaceReturn(out, ok) ==
    /\ cmd.pc = "place"
    /\ out \in PlaceOutcomes
    /\ LET l == cmd.lid
           b == cmd.bid
           r == RecordPlacement([b2m |-> blitz_to_motilal, m2b |-> motilal_to_blitz], l, b)
       IN  /\ IF out \in {"ok", "err_id"}
              THEN /\ blitz_to_motilal' = r.b2m
                   /\ motilal_to_blitz' = r.m2b
              ELSE UNCHANGED <<blitz_to_motilal, motilal_to_blitz>>
           /\ IF out \in {"err_id", "err"}
              THEN /\ Publish(Event(l, "Rejected", "sync"), ok)
                   /\ blitz_order_action' = [blitz_order_action EXCEPT ![l] = Null]
              ELSE /\ ok
                   /\ UNCHANGED <<published, blitz_order_action>>
    /\ cmd' = IdleCmd
    /\ UNCHANGED <<pvars, zvars, order_api, blitz_order_cache, websocket, brokerOrders, ws, rs,
                   nInputs>>

\* handle_modify_order up to the blocking order_api.modify_order call; with no
\* snapshot to_motilal_modify raises (cashed_data is None) after the pending
\* action was set, and process_command logs the error.
ModifyBegin(l) ==
    /\ cmd.pc = "idle"
    /\ ~NotLoggedIn
    /\ l \in CommandIds
    /\ nInputs < MaxInputs
    /\ nInputs' = nInputs + 1
    /\ blitz_order_action' = [blitz_order_action EXCEPT ![l] = MODIFY_ORDER]
    /\ cmd' = (IF blitz_order_cache[l] = "none" THEN IdleCmd
               ELSE [pc |-> "modify", lid |-> l, bid |-> blitz_to_motilal[l]])
    /\ UNCHANGED <<pvars, zvars, order_api, blitz_order_cache, blitz_to_motilal, motilal_to_blitz, websocket,
                   published, brokerOrders, ws, rs>>

\* The outcomes of the REST call of a modify or cancel: "ok", "err" (raised) or
\* "empty" (empty body, an ERROR dictionary is returned without raising); the
\* broker accepts only a request that names one of its orders.
ChangeOutcomes == IF cmd.bid # Null THEN {"ok", "err", "empty"} ELSE {"err", "empty"}

\* The status of the parsed error: "ERROR" from an error body, none otherwise.
ErrStatuses == {"ERROR", Null}

\* handle_modify_order from the return of the REST call.
ModifyReturn(out, errStatus, ok) ==
    /\ cmd.pc = "modify"
    /\ out \in ChangeOutcomes
    /\ LET l == cmd.lid
       IN  IF out = "err" /\ blitz_order_cache[l] # "none"
           THEN /\ Publish(Event(l, MapStatus(errStatus, MODIFY_ORDER), "sync"), ok)
                /\ blitz_order_action' = [blitz_order_action EXCEPT ![l] = Null]
           ELSE /\ ok
                /\ errStatus = Null
                /\ UNCHANGED <<published, blitz_order_action>>
    /\ cmd' = IdleCmd
    /\ UNCHANGED <<pvars, zvars, order_api, blitz_order_cache, blitz_to_motilal, motilal_to_blitz, websocket,
                   brokerOrders, ws, rs, nInputs>>

\* handle_cancel_order up to the blocking order_api.cancel_order call.
CancelBegin(l) ==
    /\ cmd.pc = "idle"
    /\ ~NotLoggedIn
    /\ l \in CommandIds
    /\ nInputs < MaxInputs
    /\ nInputs' = nInputs + 1
    /\ blitz_order_action' = [blitz_order_action EXCEPT ![l] = CANCEL_ORDER]
    /\ cmd' = [pc |-> "cancel", lid |-> l, bid |-> blitz_to_motilal[l]]
    /\ UNCHANGED <<pvars, zvars, order_api, blitz_order_cache, blitz_to_motilal, motilal_to_blitz, websocket,
                   published, brokerOrders, ws, rs>>

\* handle_cancel_order from the return of the REST call: on an error with no
\* snapshot it returns after logging, otherwise it publishes; the clearing of
\* the pending action is commented out.
CancelReturn(out, errStatus, ok) ==
    /\ cmd.pc = "cancel"
    /\ out \in ChangeOutcomes
    /\ LET l == cmd.lid
       IN  IF out = "err" /\ blitz_order_cache[l] # "none"
           THEN Publish(Event(l, MapStatus(errStatus, CANCEL_ORDER), "sync"), ok)
           ELSE /\ ok
                /\ errStatus = Null
                /\ UNCHANGED published
    /\ cmd' = IdleCmd
    /\ UNCHANGED <<pvars, zvars, order_api, blitz_order_cache, blitz_to_motilal, motilal_to_blitz,
                   blitz_order_action, websocket, brokerOrders, ws, rs,
                   nInputs>>

\* ------------------------------------------------------------- async feed

\* The LocalOrderId _on_message works on: the one order_id_mapper holds for the
\* broker id, else the tag of the notification.
WsResolve(b, tag) == IF motilal_to_blitz[b] # Null THEN motilal_to_blitz[b] ELSE tag

\* MotilalMapper.map_order of the feed divides averageprice by 100 with no
\* guard: it raises TypeError exactly when the notification has no averageprice.
MapOrderRaises(hasAvg) == ~hasAvg

\* MotilalWebSocket._on_message for an order update, up to the publish: the
\* broker id is resolved through order_id_mapper (auto-learned from the tag
\* when unknown), the pending action and the snapshot are read, map_order
\* runs (it divides averageprice by 100 and raises when the field is absent;
\* the handler's except clause logs that), the snapshot is written back, and an
\* unmapped status ends the handler.
WsReceive(b, hasTag, hasAvg) ==
    /\ websocket
    /\ ws.pc = "idle"
    /\ brokerOrders[b] # NoOrder
    /\ nInputs < MaxInputs
    /\ nInputs' = nInputs + 1
    /\ LET o == brokerOrders[b]
           tag == IF hasTag THEN o.owner ELSE Null
           l == WsResolve(b, tag)
           st == MapStatus(o.status, blitz_order_action[l])
       IN  IF l = Null
           THEN /\ ws' = IdleWs
                /\ UNCHANGED <<motilal_to_blitz, blitz_order_cache>>
           ELSE /\ motilal_to_blitz' =
                      (IF motilal_to_blitz[b] = Null
                       THEN [motilal_to_blitz EXCEPT ![b] = tag, ![tag] = b]
                       ELSE motilal_to_blitz)
                /\ IF MapOrderRaises(hasAvg)
                   THEN /\ ws' = IdleWs
                        /\ UNCHANGED blitz_order_cache
                   ELSE /\ blitz_order_cache' =
                              [blitz_order_cache EXCEPT
                                 ![l] = IF @ = "none" THEN "feed" ELSE @]
                        /\ ws' = (IF st = Null THEN IdleWs
                                  ELSE [pc |-> "publish", lid |-> l, bid |-> b,
                                        status |-> st, dup |-> o.sent])
    /\ UNCHANGED <<pvars, zvars, order_api, blitz_to_motilal, blitz_order_action, websocket, published,
                   brokerOrders, cmd, rs>>

\* MotilalWebSocket._on_message from the publish on: the result of
\* redis_client.publish is not looked at and the pending action is cleared.
WsPublish(ok) ==
    /\ ws.pc = "publish"
    /\ Publish(Event(ws.lid, ws.status, "ws"), ok)
    /\ blitz_order_action' = [blitz_order_action EXCEPT ![ws.lid] = Null]
    /\ brokerOrders' = [brokerOrders EXCEPT
                          ![ws.bid].sent = (@ \/ ok)]
    /\ ws' = IdleWs
    /\ UNCHANGED <<pvars, zvars, order_api, blitz_order_cache, blitz_to_motilal, motilal_to_blitz, websocket,
                   cmd, rs, nInputs>>

\* ------------------------------------------------------------ resync loop

\* The order book get_orders returns: the status of every order of the broker.
OrderBook == [b \in BrokerIds |-> brokerOrders[b].status]

\* The loop of resync_unpublished_orders over the orders book[i], i >= idx, up
\* to the first order it publishes, with pending the blitz_order_action it
\* reads: an order is passed over when its broker id does not resolve, when it
\* has no snapshot, when no action is pending or when the status is unmapped.
\* The result is the index of the order to publish, or 0 when the loop ends
\* without one.
RECURSIVE ResyncScan(_, _, _)
ResyncScan(book, idx, pending) ==
    IF idx > Len(BrokerSeq) THEN 0
    ELSE LET b == BrokerSeq[idx]
             l == motilal_to_blitz[b]
             skip == \/ book[b] = Null
                     \/ l = Null
                     \/ blitz_order_cache[l] = "none"
                     \/ pending[l] = Null
         IN  IF skip \/ MapStatus(book[b], pending[l]) = Null
             THEN ResyncScan(book, idx + 1, pending)
             ELSE idx

\* The resync thread at the publish of order number idx of book; only the part
\* of the book still to be looked at is kept.
RsAt(book, idx, pending) ==
    IF idx = 0 THEN IdleRs
    ELSE LET b == BrokerSeq[idx]
             l == motilal_to_blitz[b]
         IN  [pc |-> "publish",
              book |-> [x \in BrokerIds |->
                          IF \E i \in (idx + 1)..Len(BrokerSeq) : BrokerSeq[i] = x
                          THEN book[x] ELSE Null],
              idx |-> idx, lid |-> l,
              status |-> MapStatus(book[b], pending[l])]

\* resync_unpublished_orders up to the blocking order_api.get_orders call:
\* nothing is asked of the broker when no action is pending.
ResyncTick ==
    /\ rs.pc \in {"idle", "skipped"}
    /\ ~NoPendingAction
    /\ rs' = [IdleRs EXCEPT !.pc = "query"]
    /\ UNCHANGED <<pvars, zvars, order_api, blitz_order_cache, blitz_to_motilal, motilal_to_blitz,
                   blitz_order_action, websocket, published, brokerOrders, cmd,
                   ws, nInputs>>

\* One pass of the loop of start_resync_loop in which resync_unpublished_orders
\* returns at its first test.
ResyncSkip ==
    /\ rs.pc \in {"idle", "skipped"}
    /\ NoPendingAction
    /\ rs' = [IdleRs EXCEPT !.pc = "skipped"]
    /\ UNCHANGED <<pvars, zvars, order_api, blitz_order_cache, blitz_to_motilal, motilal_to_blitz,
                   blitz_order_action, websocket, published, brokerOrders, cmd,
                   ws, nInputs>>

\* resync_unpublished_orders from the return of get_orders up to its first
\* publish; a get_orders that raised or returned no orders ends the tick.
ResyncOrders(fails) ==
    /\ rs.pc = "query"
    /\ rs' = (IF fails THEN IdleRs
              ELSE RsAt(OrderBook, ResyncScan(OrderBook, 1, blitz_order_action),
                        blitz_order_action))
    /\ UNCHANGED <<pvars, zvars, order_api, blitz_order_cache, blitz_to_motilal, motilal_to_blitz,
                   blitz_order_action, websocket, published, brokerOrders, cmd,
                   ws, nInputs>>

\* The publish of resync_unpublished_orders and the loop up to the next one:
\* the result of redis_client.publish is not looked at and the pending action
\* is cleared.
ResyncPublish(ok) ==
    /\ rs.pc = "publish"
    /\ Publish(Event(rs.lid, rs.status, "resync"), ok)
    /\ blitz_order_action' = [blitz_order_action EXCEPT ![rs.lid] = Null]
    /\ rs' = RsAt(rs.book, ResyncScan(rs.book, rs.idx + 1, blitz_order_action'),
                  blitz_order_action')
    /\ UNCHANGED <<pvars, zvars, order_api, blitz_order_cache, blitz_to_motilal, motilal_to_blitz, websocket,
                   brokerOrders, cmd, ws, nInputs>>

\* ============================================================== Zerodha

\* The order updates the Zerodha feed sends: price stands for price and
\* quantity, pending for pending_quantity.
Update(status, price, pending) == [status |-> status, price |-> price, pending |-> pending]
NoUpdate == Update(Null, 0, 0)
ZUpdates ==
    {Update("OPEN", 1, 1), Update("OPEN", 2, 1), Update("COMPLETE", 1, 0),
     Update("CANCELLED", 1, 0), Update("CANCELLED", 1, 1), Update("REJECTED", 1, 0),
     Update("UPDATE", 1, 1)}

\* An entry of order_state_cache; marked is the key last_update_seen.
Prev(status, price, marked) == [status |-> status, price |-> price, marked |-> marked]
NoPrev == Prev(Null, 0, FALSE)

\* ZerodhaMapper._map_status.
ZMapStatus(status) ==
    IF status = "OPEN" THEN "New"
    ELSE IF status = "COMPLETE" THEN "Filled"
    ELSE IF status = "MODIFIED" THEN "Replaced"
    ELSE IF status = "CANCELLED" THEN "Cancelled"
    ELSE IF status = "REJECTED" THEN "Rejected"
    ELSE status

\* ZerodhaWebSocket.__init__ sets order_state_cache and pending_ws_updates and
\* no attribute pending_lock.
HasPendingLock == FALSE

\* _on_order_update whose modify branch does not compare the update with the
\* cached price: every OPEN on an OPEN order is taken for a modification.
OnOrderUpdateEveryOpen(prev, u) ==
    IF u.status = "UPDATE"
    THEN [pub |-> Null, cache |-> [prev EXCEPT !.marked = TRUE]]
    ELSE IF u.status = "OPEN" /\ prev # NoPrev /\ prev.status = "OPEN"
    THEN [pub |-> "Replaced", cache |-> Prev("OPEN", u.price, FALSE)]
    ELSE IF u.status = "CANCELLED" /\ u.pending > 0
    THEN [pub |-> Null, cache |-> prev]
    ELSE IF u.status = "CANCELLED"
    THEN [pub |-> "Cancelled", cache |-> Prev("CANCELLED", 0, FALSE)]
    ELSE IF u.status = "COMPLETE"
    THEN [pub |-> ZMapStatus(u.status), cache |-> Prev("COMPLETE", 0, FALSE)]
    ELSE IF u.status = "OPEN" /\ prev = NoPrev
    THEN [pub |-> ZMapStatus(u.status), cache |-> Prev("OPEN", u.price, FALSE)]
    ELSE [pub |-> Null, cache |-> prev]

\* The branches of _on_order_update for a resolved order with cache entry prev:
\* the OrderStatus it publishes (Null: nothing) and the entry it leaves.
OnOrderUpdate(prev, u) ==
    IF u.status = "UPDATE"
    THEN [pub |-> Null, cache |-> [prev EXCEPT !.marked = TRUE]]
    ELSE IF u.status = "OPEN" /\ prev # NoPrev /\ prev.status = "OPEN"
            /\ u.price # prev.price
    THEN [pub |-> "Replaced", cache |-> Prev("OPEN", u.price, FALSE)]
    ELSE IF u.status = "CANCELLED" /\ u.pending > 0
    THEN [pub |-> Null, cache |-> prev]
    ELSE IF u.status = "CANCELLED"
    THEN [pub |-> "Cancelled", cache |-> Prev("CANCELLED", 0, FALSE)]
    ELSE IF u.status = "COMPLETE"
    THEN [pub |-> ZMapStatus(u.status), cache |-> Prev("COMPLETE", 0, FALSE)]
    ELSE IF u.status = "OPEN" /\ prev = NoPrev
    THEN [pub |-> ZMapStatus(u.status), cache |-> Prev("OPEN", u.price, FALSE)]
    ELSE [pub |-> Null, cache |-> prev]

ZIdleCmd == [pc |-> "idle", lid |-> Null, bid |-> Null]

ZInit ==
    /\ zws = FALSE
    /\ order_request_data = [k \in BrokerIds \cup LocalIds |-> Null]
    /\ blitz_to_zerodha = [l \in LocalIds |-> Null]
    /\ zerodha_to_blitz = [b \in BrokerIds |-> Null]
    /\ pending_ws_updates = [b \in BrokerIds |-> NoUpdate]
    /\ order_state_cache = [b \in BrokerIds |-> NoPrev]
    /\ zpublished = <<>>
    /\ zbroker = [b \in BrokerIds |-> Null]
    /\ zcmd = ZIdleCmd
    /\ zlast = [b \in BrokerIds |-> NoUpdate]
    /\ zInputs = 0

\* ZerodhaAdapter._start_websocket: a new ZerodhaWebSocket, with empty
\* order_state_cache and pending_ws_updates, replaces the one running.
ZStartWebsocket ==
    /\ zws' = TRUE
    /\ order_state_cache' = [b \in BrokerIds |-> NoPrev]
    /\ pending_ws_updates' = [b \in BrokerIds |-> NoUpdate]
    /\ UNCHANGED <<pvars, mvars, order_request_data, blitz_to_zerodha, zerodha_to_blitz,
                   zpublished, zbroker, zcmd, zlast, zInputs>>

\* ZerodhaAdapter.stop: the feed object is closed and dropped.
ZStop ==
    /\ zws
    /\ zws' = FALSE
    /\ order_state_cache' = [b \in BrokerIds |-> NoPrev]
    /\ pending_ws_updates' = [b \in BrokerIds |-> NoUpdate]
    /\ UNCHANGED <<pvars, mvars, order_request_data, blitz_to_zerodha, zerodha_to_blitz,
                   zpublished, zbroker, zcmd, zlast, zInputs>>

ZFreeBrokerIds == {b \in BrokerIds : zbroker[b] = Null}
ZNextBrokerId == IF "B1" \in ZFreeBrokerIds THEN "B1" ELSE "B2"

\* _handle_place_order up to the blocking order_api.place_order call: the
\* request is cached under "blitz_<id>"; the broker books the order or not.
ZPlaceBegin(l, books) ==
    /\ zcmd.pc = "idle"
    /\ zInputs < MaxInputs
    /\ blitz_to_zerodha[l] = Null
    /\ order_request_data[l] = Null
    /\ books => ZFreeBrokerIds # {}
    /\ zInputs' = zInputs + 1
    /\ order_request_data' = [order_request_data EXCEPT ![l] = l]
    /\ zbroker' = (IF books THEN [zbroker EXCEPT ![ZNextBrokerId] = l] ELSE zbroker)
    /\ zcmd' = [pc |-> "place", lid |-> l, bid |-> (IF books THEN ZNextBrokerId ELSE Null)]
    /\ UNCHANGED <<pvars, mvars, zws, blitz_to_zerodha, zerodha_to_blitz, pending_ws_updates,
                   order_state_cache, zpublished, zlast>>

\* The outcomes of the REST call of a place: "ok" (the response carries the
\* order id), "error" (a response of status error), "raise" (an exception).
ZPlaceOutcomes == IF zcmd.bid # Null THEN {"ok"} ELSE {"error", "raise"}

\* _publish_order_update and the publishes of the feed.
ZPublish(ev, ok) ==
    zpublished' = (IF ok THEN Append(zpublished, ev) ELSE zpublished)

\* _handle_place_order from the return of the REST call.  After a success the
\* identity and the snapshot are recorded; then, with a feed object set, the
\* handler enters "with self.ws.pending_lock", which raises AttributeError when
\* the object has no such attribute, and the except clause publishes Rejected.
ZPlaceReturn(out, ok) ==
    /\ zcmd.pc = "place"
    /\ out \in ZPlaceOutcomes
    /\ LET l == zcmd.lid
           b == zcmd.bid
           parked == pending_ws_updates[b]
           r == OnOrderUpdate(order_state_cache[b], parked)
           rec == ZRecordPlacement([b2m |-> blitz_to_zerodha, m2b |-> zerodha_to_blitz,
                                    req |-> order_request_data], l, b)
       IN  IF out # "ok"
           THEN /\ ZPublish(Event(l, "Rejected", "rest"), ok)
                /\ UNCHANGED <<order_request_data, blitz_to_zerodha, zerodha_to_blitz,
                               pending_ws_updates, order_state_cache, zlast>>
           ELSE /\ blitz_to_zerodha' = rec.b2m
                /\ zerodha_to_blitz' = rec.m2b
                /\ order_request_data' = rec.req
                /\ IF ~zws
                   THEN /\ ok
                        /\ UNCHANGED <<pending_ws_updates, order_state_cache,
                                       zpublished, zlast>>
                   ELSE IF ~HasPendingLock
                   THEN /\ ZPublish(Event(l, "Rejected", "rest"), ok)
                        /\ UNCHANGED <<pending_ws_updates, order_state_cache, zlast>>
                   ELSE /\ pending_ws_updates' = [pending_ws_updates EXCEPT ![b] = NoUpdate]
                        /\ IF parked = NoUpdate
                           THEN /\ ok
                                /\ UNCHANGED <<order_state_cache, zpublished, zlast>>
                           ELSE /\ order_state_cache' =
                                      [order_state_cache EXCEPT ![b] = r.cache]
                                /\ IF r.pub = Null
                                   THEN ok /\ UNCHANGED <<zpublished, zlast>>
                                   ELSE /\ ZPublish(Event(l, r.pub, "replay"), ok)
                                        /\ zlast' = [zlast EXCEPT ![b] = parked]
    /\ zcmd' = ZIdleCmd
    /\ UNCHANGED <<pvars, mvars, zws, zbroker, zInputs>>

\* _handle_cancel_order up to the blocking order_api.cancel_order call.  With
\* no broker id recorded for the local id it raises inside its try and the
\* except clause publishes CancelRejected.
ZCancelBegin(l, ok) ==
    /\ zcmd.pc = "idle"
    /\ zInputs < MaxInputs
    /\ zInputs' = zInputs + 1
    /\ IF blitz_to_zerodha[l] = Null
       THEN /\ ZPublish(Event(l, "CancelRejected", "rest"), ok)
            /\ UNCHANGED zcmd
       ELSE /\ ok
            /\ zcmd' = [pc |-> "cancel", lid |-> l, bid |-> blitz_to_zerodha[l]]
            /\ UNCHANGED zpublished
    /\ UNCHANGED <<pvars, mvars, zws, order_request_data, blitz_to_zerodha, zerodha_to_blitz,
                   pending_ws_updates, order_state_cache, zbroker, zlast>>

\* _handle_cancel_order from the return of the REST call: a response of
\* status error and an exception publish CancelRejected; after a success the
\* handler builds an OrderLog, sets OrderStatus "Cancelled" and publishes it.
ZCancelReturn(out, ok) ==
    /\ zcmd.pc = "cancel"
    /\ out \in {"ok", "error", "raise"}
    /\ ZPublish(Event(zcmd.lid, IF out = "ok" THEN "Cancelled" ELSE "CancelRejected",
                      "rest"), ok)
    /\ zcmd' = ZIdleCmd
    /\ UNCHANGED <<pvars, mvars, zws, order_request_data, blitz_to_zerodha, zerodha_to_blitz,
                   pending_ws_updates, order_state_cache, zbroker, zlast, zInputs>>

\* ZerodhaWebSocket._on_order_update for update u of order b: with no snapshot
\* under the broker id the update is parked, otherwise it is handled.
ZWsUpdate(b, u, ok) ==
    /\ zws
    /\ zbroker[b] # Null
    /\ zInputs < MaxInputs
    /\ zInputs' = zInputs + 1
    /\ LET l == order_request_data[b]
           r == OnOrderUpdate(order_state_cache[b], u)
       IN  IF l = Null
           THEN /\ ok
                /\ pending_ws_updates' = [pending_ws_updates EXCEPT ![b] = u]
                /\ UNCHANGED <<order_state_cache, zpublished, zlast>>
           ELSE /\ order_state_cache' = [order_state_cache EXCEPT ![b] = r.cache]
                /\ IF r.pub = Null
                   THEN ok /\ UNCHANGED zpublished
                   ELSE ZPublish(Event(l, r.pub, "ws"), ok)
                /\ zlast' = [zlast EXCEPT
                               ![b] = IF r.pub # Null /\ ok THEN u ELSE NoUpdate]
                /\ UNCHANGED pending_ws_updates
    /\ UNCHANGED <<pvars, mvars, zws, order_request_data, blitz_to_zerodha, zerodha_to_blitz,
                   zbroker, zcmd>>

\* ------------------------------------------------------ identity recording

\* n: how many times in a row the recording was applied (1 or 2).
NoRec == [by |-> Null, l |-> Null, b |-> Null, n |-> 0]

\* The note of a recording: the second in a row when its caller and its
\* arguments are those of the recording before it.
Rec(by, l, b) ==
    [by |-> by, l |-> l, b |-> b,
     n |-> IF lastRec.by = by /\ lastRec.l = l /\ lastRec.b = b THEN 2 ELSE 1]

PInit ==
    /\ ids = [b2m |-> [l \in LocalIds |-> Null],
              m2b |-> [k \in BrokerIds \cup LocalIds |-> Null],
              req |-> [k \in BrokerIds \cup LocalIds |-> Null]]
    /\ lastRec = NoRec

\* ZerodhaAdapter._handle_place_order files the request under the temporary
\* key "blitz_<id>" before it calls the broker.
StageRequest(l) ==
    /\ ids' = [ids EXCEPT !.req[l] = l]
    /\ lastRec' = NoRec
    /\ UNCHANGED <<mvars, zvars, raw, mapped, evars, fvars, lvars, svars>>

\* A broker order id is issued once: a recording names an id no entry holds
\* yet, or it is the recording just made, made again.
CanRecord(l, b) ==
    \/ ids.m2b[b] = Null
    \/ lastRec.l = l /\ lastRec.b = b

RecordMotilal(l, b) ==
    /\ CanRecord(l, b)
    /\ ids' = RecordPlacement(ids, l, b)
    /\ lastRec' = Rec("motilal", l, b)
    /\ UNCHANGED <<mvars, zvars, raw, mapped, evars, fvars, lvars, svars>>

RecordZerodha(l, b) ==
    /\ CanRecord(l, b)
    /\ ids' = ZRecordPlacement(ids, l, b)
    /\ lastRec' = Rec("zerodha", l, b)
    /\ UNCHANGED <<mvars, zvars, raw, mapped, evars, fvars, lvars, svars>>

RecordLegacy(l, b) ==
    /\ CanRecord(l, b)
    /\ ids' = MapOrderIds(ids, l, b)
    /\ lastRec' = Rec("legacy", l, b)
    /\ UNCHANGED <<mvars, zvars, raw, mapped, evars, fvars, lvars, svars>>

\* ------------------------------------------------------------------ mappers

NoRaw == [broker |-> Null, orderstatus |-> Null, action |-> Null,
          averageprice |-> Absent, qtytradedtoday |-> Absent]
NoOut == [status |-> [done |-> FALSE, v |-> Null],
          feed |-> NoOutcome, resync |-> NoOutcome, zerodha |-> NoOutcome]

QInit == raw = NoRaw /\ mapped = NoOut

\* The payloads a mapper is handed: a Motilal order (orderstatus, averageprice
\* in paise, qtytradedtoday) with the pending action of its order, or a
\* Zerodha order update (status, average_price, filled_quantity).
MotilalRaws ==
    [broker : {"motilal"}, orderstatus : AllStatuses \cup {Null},
     action : Actions \cup {Null}, averageprice : {Absent, 0, 200},
     qtytradedtoday : {Absent, 0, 5}]
ZerodhaRaws ==
    [broker : {"zerodha"}, orderstatus : {"OPEN", "COMPLETE", "CANCELLED", "REJECTED"},
     action : {Null}, averageprice : {Absent, 0, 200},
     qtytradedtoday : {Absent, 0, 5}]

\* ZerodhaMapper.to_blitz_orderlog: OrderStatus, CumulativeQuantity and
\* OrderAverageTradedPrice are set from the update; LastTradedQuantity and
\* LastTradedPrice are not assigned.
ZToBlitzOrderlog(data) ==
    Log(ZMapStatus(data.orderstatus), 0, 0,
        OrZero(data.qtytradedtoday), OrZero(data.averageprice))

ApplyMapStatus ==
    /\ raw.broker = "motilal"
    /\ ~mapped.status.done
    /\ mapped' = [mapped EXCEPT !.status = [done |-> TRUE,
                                      v |-> MapStatus(raw.orderstatus, raw.action)]]
    /\ UNCHANGED <<mvars, zvars, ids, lastRec, raw, evars, fvars, lvars, svars>>

MapFeed ==
    /\ raw.broker = "motilal"
    /\ ~mapped.feed.done
    /\ mapped' = [mapped EXCEPT !.feed = OnMessageOutcome(raw, raw.action)]
    /\ UNCHANGED <<mvars, zvars, ids, lastRec, raw, evars, fvars, lvars, svars>>

MapResync ==
    /\ raw.broker = "motilal"
    /\ ~mapped.resync.done
    /\ mapped' = [mapped EXCEPT !.resync = ResyncOutcome(raw, raw.action)]
    /\ UNCHANGED <<mvars, zvars, ids, lastRec, raw, evars, fvars, lvars, svars>>

\* The branch of _on_order_update that publishes to_blitz_orderlog as it is
\* (COMPLETE).
MapZerodha ==
    /\ raw.broker = "zerodha"
    /\ raw.orderstatus = "COMPLETE"
    /\ ~mapped.zerodha.done
    /\ mapped' = [mapped EXCEPT !.zerodha = Outcome(TRUE, ZToBlitzOrderlog(raw))]
    /\ UNCHANGED <<mvars, zvars, ids, lastRec, raw, evars, fvars, lvars, svars>>

\* -------------------------------------------------------- handler boundary

NoCommand == [adapter |-> Null, action |-> Null, hasData |-> FALSE, hasId |-> FALSE,
              cached |-> FALSE, rest |-> Null]

EInit == command = NoCommand /\ caller = "idle"

\* The payloads of the command channel: an action, a Data object (or none)
\* with a BlitzAppOrderID (or none), whether the adapter holds a snapshot for
\* that id, and the answer of the broker's REST call: accepted, an error body,
\* or a transport exception.
Commands ==
    {c \in [adapter : {"motilal", "zerodha"}, action : Actions \cup {"OTHER"},
            hasData : BOOLEAN, hasId : BOOLEAN, cached : BOOLEAN,
            rest : {"ok", "error", "raise"}] :
        /\ c.hasId => c.hasData
        /\ c.cached => c.hasId}

\* MotilalAdapter handlers: the exceptions that leave a handler.  Outside the
\* try of the REST call, to_motilal raises on a Data without LimitPrice
\* (float(None)) and to_motilal_modify on a Data without ModifiedOrderQuantity
\* or with no snapshot (cashed_data is None); handle_cancel_order calls
\* nothing outside its try.
MHandlerRaises(c) ==
    \/ c.action = PLACE_ORDER /\ ~c.hasData
    \/ c.action = MODIFY_ORDER /\ (~c.hasData \/ ~c.cached)

\* MotilalAdapter.process_command: Data defaults to {}, the handlers run
\* inside try/except Exception, which logs.
MProcessCommand(c) ==
    IF MHandlerRaises(c) THEN "returned" ELSE "returned"

\* ZerodhaAdapter handlers: _handle_place_order reads blitz_data.get before
\* its try; _handle_modify_order reads it inside its try and its except clause
\* does not touch it; the except clause of _handle_cancel_order reads
\* blitz_data.get again.
ZHandlerRaises(c) ==
    \/ c.action = PLACE_ORDER /\ ~c.hasData
    \/ c.action = CANCEL_ORDER /\ ~c.hasData

\* ZerodhaAdapter.process_command: Data is passed on as it is (None when
\* missing) and the handlers are called outside any try.
ZProcessCommand(c) ==
    IF ZHandlerRaises(c) THEN "raised" ELSE "returned"

\* The command loop takes the next payload from the channel.
ReceiveCommand(c) ==
    /\ caller \in {"idle", "returned"}
    /\ command' = c
    /\ caller' = "waiting"
    /\ UNCHANGED <<mvars, zvars, ids, lastRec, raw, mapped, fvars, lvars, svars>>

MotilalProcessCommand ==
    /\ caller = "waiting"
    /\ command.adapter = "motilal"
    /\ caller' = MProcessCommand(command)
    /\ UNCHANGED <<mvars, zvars, ids, lastRec, raw, mapped, command, fvars, lvars, svars>>

ZerodhaProcessCommand ==
    /\ caller = "waiting"
    /\ command.adapter = "zerodha"
    /\ caller' = ZProcessCommand(command)
    /\ UNCHANGED <<mvars, zvars, ids, lastRec, raw, mapped, command, fvars, lvars, svars>>

\* ------------------------------------------------- feed connection, stop()
\* MotilalWebSocket keeps a reconnect counter; the bound caps the counter in
\* the guard of _on_close so that the state space stays finite.
MaxReconnects == 7

Min(a, b) == IF a <= b THEN a ELSE b

\* A backoff that doubles without the cap.
ReconnectDelayUncapped(k) == 3 * 2 ^ (k - 1)

\* reconnect(): delay = min(3 * (2 ** (_reconnect_count - 1)),
\* _max_reconnect_delay), with _max_reconnect_delay = 60.
ReconnectDelay(k) == Min(3 * 2 ^ (k - 1), 60)

\* MotilalWebSocket.__init__.  attempts counts the reconnect attempts started
\* since the last _on_open (kept next to the code's own counter), reopened
\* records an _on_open that followed a reconnect, auth_error_seen an ERROR
\* message of the broker that reports an authentication failure,
\* subscriptions counts the runs of _subscribe_to_all on the connection open
\* now.
NewSocket ==
    [state           |-> "new",
     should_run      |-> FALSE,
     auth_failed     |-> FALSE,
     auth_success    |-> FALSE,
     reconnect_count |-> 0,
     delay           |-> 0,
     attempts        |-> 0,
     reopened        |-> FALSE,
     auth_error_seen |-> FALSE,
     subscriptions   |-> 0,
     handler         |-> "idle",
     message         |-> Null,
     published       |-> FALSE]

\* No adapter object yet.
NoAdapter ==
    [adapter    |-> Null,
     creds      |-> FALSE,
     token      |-> FALSE,
     websocket  |-> FALSE,
     is_running |-> FALSE,
     stop       |-> "idle"]

FInit == sock = NewSocket /\ life = NoAdapter

\* MotilalAdapter.__init__ / ZerodhaAdapter.__init__.  Motilal creates
\* self.auth_api only inside "if self.api_key and self.client_code and
\* self.password"; the login inside it may or may not yield a token.  The
\* resync loop starts with is_running = True.
Construct(a, creds, token) ==
    /\ life.adapter = Null \/ life.stop # "idle"
    /\ token => creds
    /\ a = "zerodha" => creds /\ token
    /\ life' = [adapter    |-> a,
                creds      |-> creds,
                token      |-> token,
                websocket  |-> FALSE,
                is_running |-> (a = "motilal"),
                stop       |-> "idle"]
    /\ sock' = NewSocket
    /\ UNCHANGED <<mvars, zvars, ids, lastRec, raw, mapped, evars, lvars, svars>>

\* MotilalAdapter._start_websocket with MotilalWebSocket.start, and
\* ZerodhaAdapter._start_websocket: no feed without a token.
FeedStart ==
    /\ life.adapter # Null
    /\ life.stop = "idle"
    /\ ~life.websocket
    /\ life.token
    /\ life' = [life EXCEPT !.websocket = TRUE]
    /\ sock' = IF life.adapter = "motilal"
               THEN [NewSocket EXCEPT !.state = "connecting", !.should_run = TRUE]
               ELSE sock
    /\ UNCHANGED <<mvars, zvars, ids, lastRec, raw, mapped, evars, lvars, svars>>

\* MotilalWebSocket._on_open: nothing is subscribed on the new connection.
FeedOnOpen ==
    /\ sock.state = "connecting"
    /\ sock' = [sock EXCEPT !.state = "open",
                            !.subscriptions = 0,
                            !.reconnect_count = 0,
                            !.attempts = 0,
                            !.reopened = (sock.reconnect_count > 0)]
    /\ UNCHANGED <<mvars, zvars, ids, lastRec, raw, mapped, evars, life, lvars, svars>>

\* What the broker can send on the feed.
FeedMessages ==
    {"not_json",           \* text that json.loads rejects
     "auth_error",         \* status ERROR, authentication failure
     "other_error",        \* status ERROR, anything else
     "auth_success",       \* status SUCCESS with "auth" in the message
     "order_update",       \* uniqueorderid and every field the mapper reads
     "order_no_fields",    \* uniqueorderid, fields of the mapper missing
     "other"}              \* a JSON object without status and uniqueorderid

\* _on_message parses the text once before its try block.
OnMessageRaises(m) == m = "not_json"

\* Inside the try block: the status messages only log, an order update the
\* mapper accepts is published, one it rejects raises into the except clause,
\* and anything else is published as a fallback response.
OnMessagePublishes(m) == m \in {"order_update", "other"}

\* The SUCCESS branch of _on_message: "if not self._auth_success and "auth" in
\* message_text.lower()" sets the flag and calls _subscribe_to_all; the flag
\* is set to False in __init__ only.
Subscribes(s, m) ==
    m = "auth_success" /\ ~s.auth_success

\* MotilalWebSocket._on_message.
FeedOnMessage(m) ==
    /\ sock.state = "open"
    /\ sock' = [sock EXCEPT
                  !.subscriptions = IF Subscribes(sock, m)
                                    THEN sock.subscriptions + 1
                                    ELSE sock.subscriptions,
                  !.message = m,
                  !.handler = IF OnMessageRaises(m) THEN "raised" ELSE "returned",
                  !.published = ~OnMessageRaises(m) /\ OnMessagePublishes(m),
                  !.auth_success = sock.auth_success \/ m = "auth_success",
                  !.auth_error_seen = sock.auth_error_seen \/ m = "auth_error"]
    /\ UNCHANGED <<mvars, zvars, ids, lastRec, raw, mapped, evars, life, lvars, svars>>

\* MotilalWebSocket._on_close: the connection is lost or could not be made.
\* Terminal when stop() was called or _auth_failed is set; otherwise the
\* reconnect thread counts the attempt and sleeps.
FeedOnClose ==
    /\ sock.state \in {"connecting", "open"}
    /\ sock.reconnect_count < MaxReconnects
    /\ sock' = IF ~sock.should_run \/ sock.auth_failed
               THEN [sock EXCEPT !.state = "closed"]
               ELSE [sock EXCEPT !.state = "waiting",
                                 !.reconnect_count = sock.reconnect_count + 1,
                                 !.attempts = sock.attempts + 1,
                                 !.delay = ReconnectDelay(sock.reconnect_count + 1)]
    /\ UNCHANGED <<mvars, zvars, ids, lastRec, raw, mapped, evars, life, lvars, svars>>

\* reconnect() after "if not self._should_run or self._auth_failed: return":
\* a new WebSocketApp is made and run, the flags are not read again.
ConnectAfterCheck(s) == [s EXCEPT !.state = "connecting"]

\* reconnect() after its sleep: checks the two flags again.
FeedReconnect ==
    /\ sock.state = "waiting"
    /\ sock' = IF ~sock.should_run \/ sock.auth_failed
               THEN [sock EXCEPT !.state = "closed"]
               ELSE [sock EXCEPT !.state = "checked"]
    /\ UNCHANGED <<mvars, zvars, ids, lastRec, raw, mapped, evars, life, lvars, svars>>

\* reconnect() past its check: the thread opens the new connection.
FeedConnect ==
    /\ sock.state = "checked"
    /\ sock' = ConnectAfterCheck(sock)
    /\ UNCHANGED <<mvars, zvars, ids, lastRec, raw, mapped, evars, life, lvars, svars>>

\* MotilalAdapter.stop reads self.auth_api, an attribute __init__ never set
\* when the credentials were missing.
MStopRaises(l) == ~l.creds

\* ZerodhaAdapter.stop calls ws.stop(), which calls kws.close() without a try.
ZStopRaises(l, closeFails) == l.websocket /\ closeFails

\* MotilalAdapter.stop: is_running = False, logout inside try/except, then
\* MotilalWebSocket.stop (whose close is inside try/except).
MotilalStop(logoutFails, closeFails) ==
    /\ life.adapter = "motilal"
    /\ life.stop = "idle"
    /\ IF MStopRaises(life)
       THEN /\ life' = [life EXCEPT !.is_running = FALSE, !.stop = "raised"]
            /\ UNCHANGED sock
       ELSE /\ life' = [life EXCEPT !.is_running = FALSE, !.stop = "returned"]
            /\ sock' = IF life.websocket
                       THEN [sock EXCEPT !.should_run = FALSE]
                       ELSE sock
    /\ UNCHANGED <<mvars, zvars, ids, lastRec, raw, mapped, evars, lvars, svars>>

\* ZerodhaAdapter.stop.
ZerodhaStop(closeFails) ==
    /\ life.adapter = "zerodha"
    /\ life.stop = "idle"
    /\ life' = IF ZStopRaises(life, closeFails)
               THEN [life EXCEPT !.stop = "raised"]
               ELSE [life EXCEPT !.stop = "returned", !.websocket = FALSE]
    /\ UNCHANGED <<mvars, zvars, ids, lastRec, raw, mapped, evars, sock, lvars, svars>>

NextFeed ==
    \/ \E a \in {"motilal", "zerodha"}, creds \in BOOLEAN, token \in BOOLEAN :
          Construct(a, creds, token)
    \/ FeedStart
    \/ FeedOnOpen
    \/ \E m \in FeedMessages : FeedOnMessage(m)
    \/ FeedOnClose
    \/ FeedReconnect
    \/ FeedConnect
    \/ \E logoutFails \in BOOLEAN, closeFails \in BOOLEAN :
          MotilalStop(logoutFails, closeFails)
    \/ \E closeFails \in BOOLEAN : ZerodhaStop(closeFails)

\* ------------------------------------------------------------------ OrderLog
\* The fields of OrderLog by the helper to_dict passes them through.
IntFields ==
    {"SequenceNumber", "ExchangeInstrumentID", "OrderQuantity", "LeavesQuantity",
     "CumulativeQuantity", "OrderDisclosedQuantity", "LastTradedQuantity"}

FloatFields == {"OrderPrice", "OrderStopPrice", "LastTradedPrice"}

StrFields ==
    {"Account", "ExchangeClientID", "BlitzAppOrderID", "ExchangeOrderID",
     "ExchangeSegment", "OrderSide", "OrderType", "ProductType", "TimeInForce",
     "OrderStatus", "OrderAverageTradedPrice", "OrderGeneratedDateTime",
     "ExchangeTransactTime", "LastUpdateDateTime", "CancelRejectReason",
     "LastExecutionTransactTime", "ExecutionID"}

Fields == IntFields \cup FloatFields \cup StrFields

\* The fields OrderLog.__init__ sets to None.
InitiallyNone ==
    {"ExchangeClientID", "ExchangeOrderID", "ProductType", "OrderAverageTradedPrice",
     "OrderGeneratedDateTime", "ExchangeTransactTime", "LastUpdateDateTime",
     "CancelRejectReason", "LastExecutionTransactTime", "ExecutionID"}

\* How many fields a mapper assigns after __init__, None or a value.
MaxNone == 2

\* A value is None or has the type of its field; zero tells the default of
\* the type (0, 0.0 or "") from any other value.
None == [type |-> "None", zero |-> FALSE]

TypeOf(f) ==
    IF f \in IntFields THEN "int" ELSE IF f \in FloatFields THEN "float" ELSE "str"

Zero(t) == [type |-> t, zero |-> TRUE]

Filled(f) == [type |-> TypeOf(f), zero |-> FALSE]

\* A string helper that hands None through.
StrKeepsNone(v) == v

\* The helpers _str, _int and _float of to_dict.
StrOrEmpty(v) == IF v # None THEN v ELSE Zero("str")

IntOrZero(v) == IF v # None THEN v ELSE Zero("int")

FloatOrZero(v) == IF v # None THEN v ELSE Zero("float")

\* OrderLog.to_dict: every field through the helper of its type.
ToDict(o) ==
    [f \in Fields |->
        IF f \in IntFields THEN IntOrZero(o[f])
        ELSE IF f \in FloatFields THEN FloatOrZero(o[f])
        ELSE StrOrEmpty(o[f])]

\* OrderLog.__init__.
NewOrderLog ==
    [f \in Fields |-> IF f \in InitiallyNone THEN None ELSE Zero(TypeOf(f))]

\* No OrderLog object yet, nothing serialized yet.
NoObject == <<>>

LInit == order_log = NoObject /\ serialized = NoObject

\* The sets of at most n fields.
RECURSIVE FieldSets(_)
FieldSets(n) ==
    IF n = 0 THEN {{}}
    ELSE LET smaller == FieldSets(n - 1)
         IN  smaller \cup {s \cup {f} : s \in smaller, f \in Fields}

\* OrderLog(): a mapper starts the next event with a fresh object.
CreateOrderLog ==
    /\ order_log = NoObject \/ serialized # NoObject
    /\ order_log' = NewOrderLog
    /\ serialized' = NoObject
    /\ UNCHANGED <<mvars, zvars, ids, lastRec, raw, mapped, evars, fvars, svars>>

\* The mapper assigns the chosen fields of the fresh object: None to some,
\* a value to the others.
AssignFields(chosen, nones) ==
    /\ order_log = NewOrderLog
    /\ serialized = NoObject
    /\ nones \subseteq chosen
    /\ order_log' = [f \in Fields |->
                        IF f \in nones THEN None
                        ELSE IF f \in chosen THEN Filled(f)
                        ELSE NewOrderLog[f]]
    /\ UNCHANGED <<mvars, zvars, ids, lastRec, raw, mapped, evars, fvars, serialized, svars>>

\* to_dict, as called by MessageFormatter.order_update and .orders, which put
\* the dictionary into the event as it is.
Serialize ==
    /\ order_log # NoObject
    /\ serialized = NoObject
    /\ serialized' = ToDict(order_log)
    /\ UNCHANGED <<mvars, zvars, ids, lastRec, raw, mapped, evars, fvars, order_log, svars>>

NextLog ==
    \/ CreateOrderLog
    \/ \E chosen \in FieldSets(MaxNone) : \E nones \in SUBSET chosen :
          AssignFields(chosen, nones)
    \/ Serialize

\* ------------------------------------------------ snapshot of one order
\* One local order L1 and the broker order B1 that carries it as tag, with
\* the fields of the snapshot the handlers, the feed and the resync read and
\* write.  Prices stand for price and quantity; 0 is an absent value.

\* The broker's lastmodifiedtime grows with every change; the bound caps it.
MaxTime == 3

SnapPrices == {1, 2}

\* blitz_order_cache.get(L): nothing (kind "none"), the request of the place
\* handler, a dictionary the feed made from {} (only LastModifiedDateTime),
\* or a broker order stored by handle_get_orders (the broker's own keys).
NoCache == [kind |-> "none", BlitzAppOrderID |-> Null, price |-> 0,
            LastModifiedDateTime |-> 0, by |-> Null]

NoBrokerOrder == [status |-> Null, price |-> 0, lastmodifiedtime |-> 0]

NoEvent == [status |-> Null, BlitzAppOrderID |-> Null, src |-> Null, seq |-> 0]

\* An adapter that knows nothing of the order.  b2m is blitz_to_motilal[L1],
\* m2b is motilal_to_blitz[B1]; seen is the lastmodifiedtime of the payload
\* observed last, sent the one the last modify call carried, owed tells that
\* an accepted placement has not been answered by a publication yet, op names
\* the operation that ran last.
FreshSnap ==
    [op     |-> Null,
     b2m    |-> FALSE,
     m2b    |-> FALSE,
     action |-> Null,
     cache  |-> NoCache,
     broker |-> NoBrokerOrder,
     last   |-> NoEvent,
     seen   |-> 0,
     sent   |-> Absent,
     owed   |-> FALSE]

\* The same adapter after a restart: the broker still holds the order, with
\* its tag, that an earlier run placed.
RestartedSnap(st, p) ==
    [FreshSnap EXCEPT !.broker = [status |-> st, price |-> p, lastmodifiedtime |-> 1]]

\* No order is followed.
SInit == snap = <<>>

\* An event reaches the bus: the next sequence bit tells it from the last.
SnapEvent(s, status, id, src) ==
    [status |-> status, BlitzAppOrderID |-> id, src |-> src, seq |-> 1 - s.last.seq]

\* handle_place_order, REST call included: the request is cached and the
\* action set; an acceptance records the identity and publishes nothing, a
\* rejection publishes Rejected from the request and clears the action.
PlaceOrder(s, p, accepted) ==
    LET c == [kind |-> "request", BlitzAppOrderID |-> "L1", price |-> p,
              LastModifiedDateTime |-> 0, by |-> "place"]
    IN  IF accepted
        THEN [s EXCEPT !.cache = c, !.action = PLACE_ORDER, !.b2m = TRUE, !.m2b = TRUE,
                       !.owed = TRUE,
                       !.broker = [status |-> "PENDING", price |-> p,
                                   lastmodifiedtime |-> 1]]
        ELSE [s EXCEPT !.cache = c, !.action = Null,
                       !.last = SnapEvent(s, "Rejected", "L1", "sync")]

\* handle_modify_order and handle_cancel_order: blitz_order_action[L] = action.
SetAction(s, a) == [s EXCEPT !.action = a]

\* handle_modify_order, REST call included.  to_motilal_modify raises when
\* there is no snapshot; otherwise the call carries the snapshot's
\* LastModifiedDateTime.  The broker accepts only a call that names its order.
ModifyOrder(s, p, accepted) ==
    LET t == SetAction(s, MODIFY_ORDER)
    IN  IF s.cache.kind = "none" THEN t
        ELSE IF accepted
        THEN [t EXCEPT !.sent = s.cache.LastModifiedDateTime,
                       !.broker = [status |-> "CONFIRM", price |-> p,
                                   lastmodifiedtime |-> s.broker.lastmodifiedtime + 1]]
        ELSE [t EXCEPT !.sent = s.cache.LastModifiedDateTime,
                       !.action = Null,
                       !.last = SnapEvent(s, "ReplaceRejected", s.cache.BlitzAppOrderID,
                                          "sync")]

\* handle_cancel_order, REST call included: a rejection publishes
\* CancelRejected when there is a snapshot and leaves the action.
CancelOrder(s, accepted) ==
    LET t == SetAction(s, CANCEL_ORDER)
    IN  IF accepted
        THEN [t EXCEPT !.broker = [s.broker EXCEPT
                                     !.status = "CANCEL",
                                     !.lastmodifiedtime = s.broker.lastmodifiedtime + 1]]
        ELSE IF s.cache.kind = "none" THEN t
        ELSE [t EXCEPT !.last = SnapEvent(s, "CancelRejected", s.cache.BlitzAppOrderID,
                                          "sync")]

\* _on_message for an order update of B1: the local id is resolved from the
\* identity map or learned from the tag; map_order takes BlitzAppOrderID from
\* the snapshot; the snapshot ({} when there is none) gets the payload's
\* lastmodifiedtime; a mapped status is published and the action cleared.
FeedOrderUpdate(s) ==
    LET status == MapStatus(s.broker.status, s.action)
        c == IF s.cache.kind = "none"
             THEN [NoCache EXCEPT !.kind = "feed"]
             ELSE s.cache
        t == [s EXCEPT !.m2b = TRUE,
                       !.seen = s.broker.lastmodifiedtime,
                       !.cache = [c EXCEPT
                                    !.LastModifiedDateTime = s.broker.lastmodifiedtime,
                                    !.by = "feed"]]
    IN  IF status = Null THEN t
        ELSE [t EXCEPT !.last = SnapEvent(s, status, s.cache.BlitzAppOrderID, "ws"),
                       !.action = Null,
                       !.owed = FALSE]

\* A resync that stamps the snapshot only when it publishes.
ResyncOrderStampsOnPublish(s) ==
    LET status == MapStatus(s.broker.status, s.action)
    IN  IF ~s.m2b \/ s.cache.kind = "none" \/ s.action = Null \/ status = Null
        THEN s
        ELSE [s EXCEPT !.seen = s.broker.lastmodifiedtime,
                       !.cache = [s.cache EXCEPT
                                    !.LastModifiedDateTime = s.broker.lastmodifiedtime,
                                    !.by = "resync"],
                       !.last = SnapEvent(s, status, s.cache.BlitzAppOrderID, "resync"),
                       !.action = Null,
                       !.owed = FALSE]

\* resync_unpublished_orders for the order B1 of the returned book.
ResyncOrder(s) ==
    LET status == MapStatus(s.broker.status, s.action)
        t == [s EXCEPT !.seen = s.broker.lastmodifiedtime,
                       !.cache = [s.cache EXCEPT
                                    !.LastModifiedDateTime = s.broker.lastmodifiedtime,
                                    !.by = "resync"]]
    IN  IF ~s.m2b \/ s.cache.kind = "none" THEN s
        ELSE IF s.action = Null \/ status = Null THEN t
        ELSE [t EXCEPT !.last = SnapEvent(s, status, s.cache.BlitzAppOrderID, "resync"),
                       !.action = Null,
                       !.owed = FALSE]

\* handle_get_orders: blitz_order_cache[L] = order for every returned order
\* whose broker id resolves; the broker's dictionary has neither
\* BlitzAppOrderID nor LastModifiedDateTime among its keys.
GetOrders(s) ==
    IF s.m2b
    THEN [s EXCEPT !.cache = [kind |-> "broker", BlitzAppOrderID |-> Null,
                              price |-> s.broker.price, LastModifiedDateTime |-> 0,
                              by |-> "get_orders"]]
    ELSE s

SnapPlace(p, accepted) ==
    /\ snap.cache.kind = "none"
    /\ snap.broker = NoBrokerOrder
    /\ snap' = [PlaceOrder(snap, p, accepted) EXCEPT !.op = "place"]
    /\ UNCHANGED <<mvars, zvars, ids, lastRec, raw, mapped, evars, fvars, lvars, limiter>>

SnapModify(p, accepted) ==
    /\ accepted => snap.b2m /\ snap.broker.status \in {"PENDING", "CONFIRM"}
    /\ accepted => snap.broker.lastmodifiedtime < MaxTime
    /\ snap' = [ModifyOrder(snap, p, accepted) EXCEPT !.op = "modify"]
    /\ UNCHANGED <<mvars, zvars, ids, lastRec, raw, mapped, evars, fvars, lvars, limiter>>

SnapCancel(accepted) ==
    /\ accepted => snap.b2m /\ snap.broker.status \in {"PENDING", "CONFIRM"}
    /\ accepted => snap.broker.lastmodifiedtime < MaxTime
    /\ snap' = [CancelOrder(snap, accepted) EXCEPT !.op = "cancel"]
    /\ UNCHANGED <<mvars, zvars, ids, lastRec, raw, mapped, evars, fvars, lvars, limiter>>

\* The broker moves the order on.
SnapBroker(st) ==
    /\ snap.broker.status \in {"PENDING", "CONFIRM"}
    /\ st \in {"CONFIRM", "REJECTED", "TRADED"}
    /\ snap.broker.status = "CONFIRM" => st = "TRADED"
    /\ snap.broker.lastmodifiedtime < MaxTime
    /\ snap' = [snap EXCEPT !.op = "broker", !.broker.status = st,
                            !.broker.lastmodifiedtime = snap.broker.lastmodifiedtime + 1]
    /\ UNCHANGED <<mvars, zvars, ids, lastRec, raw, mapped, evars, fvars, lvars, limiter>>

SnapFeed ==
    /\ snap.broker # NoBrokerOrder
    /\ snap' = [FeedOrderUpdate(snap) EXCEPT !.op = "feed"]
    /\ UNCHANGED <<mvars, zvars, ids, lastRec, raw, mapped, evars, fvars, lvars, limiter>>

\* A resync tick that fetches the book: some action is pending, of this order
\* or of another.
SnapResync(otherPending) ==
    /\ snap.broker # NoBrokerOrder
    /\ snap.action # Null \/ otherPending
    /\ snap' = [ResyncOrder(snap) EXCEPT !.op = "resync"]
    /\ UNCHANGED <<mvars, zvars, ids, lastRec, raw, mapped, evars, fvars, lvars, limiter>>

SnapGetOrders ==
    /\ snap.broker # NoBrokerOrder
    /\ snap' = [GetOrders(snap) EXCEPT !.op = "get_orders"]
    /\ UNCHANGED <<mvars, zvars, ids, lastRec, raw, mapped, evars, fvars, lvars, limiter>>

NextSnap ==
    \/ \E p \in SnapPrices, accepted \in BOOLEAN : SnapPlace(p, accepted)
    \/ \E p \in SnapPrices, accepted \in BOOLEAN : SnapModify(p, accepted)
    \/ \E accepted \in BOOLEAN : SnapCancel(accepted)
    \/ \E st \in BrokerStatuses : SnapBroker(st)
    \/ SnapFeed
    \/ \E otherPending \in BOOLEAN : SnapResync(otherPending)
    \/ SnapGetOrders

\* ------------------------------------------- legacy adapter, rate limiter
\* MotilalAdapter of src/Motilal/Motilal: order commands beyond rate_limit
\* requests per window are queued for the queue-processor thread.

\* The commands are numbered in the order process_command receives them; the
\* bound caps their number.
MaxCommands == 12

\* self.rate_limit = 10 requests per window.
rate_limit == 10

\* __init__: is_running = False, an empty deque of timestamps (window is its
\* length), an empty request_queue, and _start_queue_processor has started
\* the thread, which has not run yet.  received counts the order commands,
\* executed lists the commands the thread has run, item is the command the
\* thread holds.
NewLimiter ==
    [is_running    |-> FALSE,
     stopped       |-> FALSE,
     thread        |-> "started",
     window        |-> 0,
     request_queue |-> <<>>,
     item          |-> 0,
     executed      |-> <<>>,
     received      |-> 0]

\* No legacy adapter.
RInit == limiter = <<>>

\* process_queue at "while self.is_running:" and request_queue.get: the
\* thread ends when the flag is False, goes round when the queue is empty,
\* and takes the oldest item otherwise.
QueueLoop(r) ==
    IF ~r.is_running
    THEN [r EXCEPT !.thread = "exited"]
    ELSE IF r.request_queue = <<>>
    THEN [r EXCEPT !.thread = "loop"]
    ELSE [r EXCEPT !.thread = "holding",
                   !.item = Head(r.request_queue),
                   !.request_queue = Tail(r.request_queue)]

\* process_queue with an item: it sleeps while _check_rate_limit refuses,
\* ends when the flag is False, and runs the callback otherwise.
QueueRun(r) ==
    IF ~r.is_running
    THEN [r EXCEPT !.thread = "exited"]
    ELSE IF r.window >= rate_limit
    THEN r
    ELSE [r EXCEPT !.thread = "loop",
                   !.window = r.window + 1,
                   !.executed = Append(r.executed, r.item),
                   !.item = 0]

\* start().
LegacyStart ==
    /\ ~limiter.is_running
    /\ ~limiter.stopped
    /\ limiter' = [limiter EXCEPT !.is_running = TRUE]
    /\ UNCHANGED <<mvars, zvars, ids, lastRec, raw, mapped, evars, fvars, lvars, snap>>

\* stop().
LegacyStop ==
    /\ limiter.is_running
    /\ limiter' = [limiter EXCEPT !.is_running = FALSE, !.stopped = TRUE]
    /\ UNCHANGED <<mvars, zvars, ids, lastRec, raw, mapped, evars, fvars, lvars, snap>>

\* process_command for an order action with the feed connected:
\* _check_rate_limit admits the command, which runs at once, or refuses it,
\* and the command is queued.
LegacyProcessCommand ==
    /\ limiter.is_running
    /\ limiter.received < MaxCommands
    /\ limiter' = IF limiter.window < rate_limit
                  THEN [limiter EXCEPT !.received = limiter.received + 1,
                                       !.window = limiter.window + 1]
                  ELSE [limiter EXCEPT !.received = limiter.received + 1,
                                       !.request_queue =
                                          Append(limiter.request_queue,
                                                 limiter.received + 1)]
    /\ UNCHANGED <<mvars, zvars, ids, lastRec, raw, mapped, evars, fvars, lvars, snap>>

\* The oldest timestamp of the window gets older than rate_limit_window.
TimePasses ==
    /\ limiter.window > 0
    /\ limiter' = [limiter EXCEPT !.window = limiter.window - 1]
    /\ UNCHANGED <<mvars, zvars, ids, lastRec, raw, mapped, evars, fvars, lvars, snap>>

\* The queue-processor thread at the head of its loop.
QueueProcessorLoop ==
    /\ limiter.thread \in {"started", "loop"}
    /\ limiter' = QueueLoop(limiter)
    /\ UNCHANGED <<mvars, zvars, ids, lastRec, raw, mapped, evars, fvars, lvars, snap>>

\* The queue-processor thread with an item in hand.
QueueProcessorRun ==
    /\ limiter.thread = "holding"
    /\ limiter' = QueueRun(limiter)
    /\ UNCHANGED <<mvars, zvars, ids, lastRec, raw, mapped, evars, fvars, lvars, snap>>

NextQueue ==
    \/ LegacyStart
    \/ LegacyStop
    \/ LegacyProcessCommand
    \/ TimePasses
    \/ QueueProcessorLoop
    \/ QueueProcessorRun

\* ------------------------------------------------------------ specification
Init == MInit /\ ZInit /\ PInit /\ QInit /\ EInit /\ FInit /\ LInit /\ SInit /\ RInit

Next ==
    \/ StartWebsocket
    \/ \E b \in BrokerIds, s \in BrokerStatuses : BrokerStep(b, s)
    \/ \E l \in LocalIds, books \in BOOLEAN, s0 \in BrokerStatuses : PlaceBegin(l, books, s0)
    \/ \E out \in {"ok", "err_id", "err", "empty"}, ok \in BOOLEAN : PlaceReturn(out, ok)
    \/ \E l \in LocalIds : ModifyBegin(l)
    \/ \E out \in {"ok", "err", "empty"}, e \in ErrStatuses, ok \in BOOLEAN :
          ModifyReturn(out, e, ok)
    \/ \E l \in LocalIds : CancelBegin(l)
    \/ \E out \in {"ok", "err", "empty"}, e \in ErrStatuses, ok \in BOOLEAN :
          CancelReturn(out, e, ok)
    \/ \E b \in BrokerIds, hasTag \in BOOLEAN, hasAvg \in BOOLEAN : WsReceive(b, hasTag, hasAvg)
    \/ \E ok \in BOOLEAN : WsPublish(ok)
    \/ ResyncTick
    \/ ResyncSkip
    \/ \E fails \in BOOLEAN : ResyncOrders(fails)
    \/ \E ok \in BOOLEAN : ResyncPublish(ok)

Spec == Init /\ [][Next]_vars

NextZ ==
    \/ ZStartWebsocket
    \/ ZStop
    \/ \E l \in LocalIds, books \in BOOLEAN : ZPlaceBegin(l, books)
    \/ \E out \in {"ok", "error", "raise"}, ok \in BOOLEAN : ZPlaceReturn(out, ok)
    \/ \E l \in LocalIds, ok \in BOOLEAN : ZCancelBegin(l, ok)
    \/ \E out \in {"ok", "error", "raise"}, ok \in BOOLEAN : ZCancelReturn(out, ok)
    \/ \E b \in BrokerIds, u \in ZUpdates, ok \in BOOLEAN : ZWsUpdate(b, u, ok)

SpecZ == Init /\ [][NextZ]_vars

\* The identity recordings of the three adapters, applied in any order to
\* the dictionaries they leave behind.
NextIds ==
    \/ \E l \in LocalIds : StageRequest(l)
    \/ \E l \in LocalIds, b \in BrokerIds : RecordMotilal(l, b)
    \/ \E l \in LocalIds, b \in BrokerIds : RecordZerodha(l, b)
    \/ \E l \in LocalIds, b \in BrokerIds : RecordLegacy(l, b)

SpecIds == Init /\ [][NextIds]_vars

\* The mappers and the publishing paths applied to one payload, any payload.
InitMap ==
    /\ MInit /\ ZInit /\ PInit /\ EInit /\ FInit /\ LInit /\ SInit /\ RInit
    /\ raw \in MotilalRaws \cup ZerodhaRaws
    /\ mapped = NoOut

NextMap ==
    \/ ApplyMapStatus
    \/ MapFeed
    \/ MapResync
    \/ MapZerodha

SpecMap == InitMap /\ [][NextMap]_vars

\* process_command of both adapters, called by the command loop for one
\* payload after the other.
NextCmd ==
    \/ \E c \in Commands : ReceiveCommand(c)
    \/ MotilalProcessCommand
    \/ ZerodhaProcessCommand

SpecCmd == Init /\ [][NextCmd]_vars

\* The feed connection and the adapters' construction and stop().
SpecFeed == Init /\ [][NextFeed]_vars

\* OrderLog objects as the mappers leave them, and their serialization.
SpecLog == Init /\ [][NextLog]_vars

\* The command thread of an adapter whose login gave a token or gave none.
InitLogin ==
    /\ MDicts /\ order_api \in BOOLEAN
    /\ ZInit /\ PInit /\ QInit /\ EInit /\ FInit /\ LInit /\ SInit /\ RInit

NextLogin ==
    \/ \E b \in BrokerIds, s \in BrokerStatuses : BrokerStep(b, s)
    \/ \E a \in Actions, l \in LocalIds : FailFast(a, l)
    \/ \E l \in LocalIds, books \in BOOLEAN, s0 \in BrokerStatuses : PlaceBegin(l, books, s0)
    \/ \E out \in {"ok", "err_id", "err", "empty"}, ok \in BOOLEAN : PlaceReturn(out, ok)
    \/ \E l \in LocalIds : ModifyBegin(l)
    \/ \E out \in {"ok", "err", "empty"}, errStatus \in ErrStatuses, ok \in BOOLEAN :
          ModifyReturn(out, errStatus, ok)
    \/ \E l \in LocalIds : CancelBegin(l)
    \/ \E out \in {"ok", "err", "empty"}, errStatus \in ErrStatuses, ok \in BOOLEAN :
          CancelReturn(out, errStatus, ok)

SpecLogin == InitLogin /\ [][NextLogin]_vars

\* One order and its snapshot, in an adapter that starts empty or restarts
\* while the broker holds the order.
InitSnap ==
    /\ MInit /\ ZInit /\ PInit /\ QInit /\ EInit /\ FInit /\ LInit /\ RInit
    /\ snap \in {FreshSnap} \cup {RestartedSnap(st, p) : st \in {"PENDING", "CONFIRM"},
                                                       p \in SnapPrices}

SpecSnap == InitSnap /\ [][NextSnap]_vars

\* The legacy adapter after __init__.  The scheduler lets every thread run,
\* and time passes.
InitQueue ==
    /\ MInit /\ ZInit /\ PInit /\ QInit /\ EInit /\ FInit /\ LInit /\ SInit
    /\ limiter = NewLimiter

FairQueue ==
    /\ WF_vars(QueueProcessorLoop)
    /\ WF_vars(QueueProcessorRun)
    /\ WF_vars(TimePasses)

SpecQueue == InitQueue /\ [][NextQueue]_vars /\ FairQueue

\* The feed delivers nothing (no feed object is started), every REST call is
\* accepted, and the threads keep running: a REST call returns, the resync
\* loop ticks again, get_orders answers in the end, the broker moves its
\* orders on, and a publish that is tried again and again succeeds in the end.
NextLive ==
    \/ \E b \in BrokerIds, s \in BrokerStatuses : BrokerStep(b, s)
    \/ \E l \in LocalIds, s0 \in BrokerStatuses : PlaceBegin(l, TRUE, s0)
    \/ \E ok \in BOOLEAN : PlaceReturn("ok", ok)
    \/ \E l \in LocalIds : blitz_to_motilal[l] # Null /\ ModifyBegin(l)
    \/ ModifyReturn("ok", Null, TRUE)
    \/ \E l \in LocalIds : blitz_to_motilal[l] # Null /\ CancelBegin(l)
    \/ CancelReturn("ok", Null, TRUE)
    \/ ResyncTick
    \/ ResyncSkip
    \/ \E fails \in BOOLEAN : ResyncOrders(fails)
    \/ \E ok \in BOOLEAN : ResyncPublish(ok)

FairLive ==
    /\ WF_vars(\E b \in BrokerIds, s \in BrokerStatuses : BrokerStep(b, s))
    /\ WF_vars(\E ok \in BOOLEAN : PlaceReturn("ok", ok))
    /\ WF_vars(ModifyReturn("ok", Null, TRUE))
    /\ WF_vars(CancelReturn("ok", Null, TRUE))
    /\ WF_vars(ResyncTick)
    /\ SF_vars(ResyncOrders(FALSE))
    /\ WF_vars(\E ok \in BOOLEAN : ResyncPublish(ok))
    /\ SF_vars(ResyncPublish(TRUE))

SpecLive == Init /\ [][NextLive]_vars /\ FairLive

\* ================================================================ claims

\* C1: for one PLACE_ORDER for L, the sync rejection, the feed and the resync
\* together publish at most one event with OrderStatus New or Rejected for L.
C1_OneNewOrRejected ==
    \A l \in LocalIds :
        Cardinality({i \in DOMAIN published :
                        /\ published[i].lid = l
                        /\ published[i].status \in {"New", "Rejected"}}) <= 1

\* C2: ZerodhaAdapter._handle_place_order publishes Rejected for L only when
\* the REST call failed, so never for an L whose identity (L,B) it recorded.
C2_RejectedOnlyOnRestFailure ==
    \A i \in DOMAIN zpublished :
        zpublished[i].src = "rest" => blitz_to_zerodha[zpublished[i].lid] = Null

\* C3: once _handle_place_order has recorded (L,B), no update for B is left
\* parked in pending_ws_updates (it was replayed and removed).
C3_ParkedUpdateReplayed ==
    \A b \in BrokerIds :
        zerodha_to_blitz[b] # Null => pending_ws_updates[b] = NoUpdate

\* C4: a notification the feed delivers again, unchanged, after it was
\* published, publishes nothing.
C4_DuplicatePublishesNothing ==
    [][(ws.pc = "publish" /\ ws.dup /\ ws'.pc = "idle") => published' = published]_vars

\* C5: blitz_order_action[L] goes from non-null to null only in a step that
\* puts an event for L on the bus.
C5_ClearedOnlyAfterPublish ==
    [][\A l \in LocalIds :
          (blitz_order_action[l] # Null /\ blitz_order_action'[l] = Null)
              => /\ Len(published') = Len(published) + 1
                 /\ published'[Len(published')].lid = l]_vars

\* C6: the feed thread and the resync thread never both publish the
\* acknowledgement of the one PLACE_ORDER pending on L.
C6_OneEventPerPendingAction ==
    \A l \in LocalIds :
        ~(\E i, j \in DOMAIN published :
              /\ published[i] = Event(l, "New", "ws")
              /\ published[j] = Event(l, "New", "resync"))

\* C7: with the feed silent, an action on L that REST accepted under a broker
\* id and that is pending leads to an event for L published by the resync
\* loop, with blitz_order_action[L] null.
C7_ResyncEventuallyPublishes ==
    \A l \in LocalIds :
        (blitz_to_motilal[l] # Null /\ blitz_order_action[l] # Null /\ cmd.lid # l)
            ~> (/\ blitz_order_action[l] = Null
                /\ \E i \in DOMAIN published :
                      published[i].lid = l /\ published[i].src = "resync")

\* C8: a command whose REST call failed puts exactly one event on the bus (the
\* bus being up), for its order and with the rejection status of its action.
C8_FailedCommandRejectedOnce ==
    [][(\/ \E out \in {"err_id", "err", "empty"} : PlaceReturn(out, TRUE)
        \/ \E out \in {"err", "empty"}, e \in ErrStatuses : ModifyReturn(out, e, TRUE)
        \/ \E out \in {"err", "empty"}, e \in ErrStatuses : CancelReturn(out, e, TRUE))
          => /\ Len(published') = Len(published) + 1
             /\ published'[Len(published')].lid = cmd.lid
             /\ published'[Len(published')].status =
                    (IF cmd.pc = "place" THEN "Rejected"
                     ELSE IF cmd.pc = "modify" THEN "ReplaceRejected"
                     ELSE "CancelRejected")]_vars

\* C9: an order update for a resolved broker id whose status the table does
\* not map for the pending action ends _on_message with nothing to publish,
\* publishes nothing and leaves blitz_order_action as it was.
C9_UnmappedStatusDropped ==
    [][\A b \in BrokerIds, hasTag \in BOOLEAN, hasAvg \in BOOLEAN :
          LET l == WsResolve(b, IF hasTag THEN brokerOrders[b].owner ELSE Null)
              s == brokerOrders[b].status
          IN  (/\ WsReceive(b, hasTag, hasAvg)
               /\ l # Null
               /\ s \notin {"TRADED", "PARTIAL", "CANCEL"}
               /\ \/ blitz_order_action[l] = Null
                  \/ s \notin {"CONFIRM", "REJECTED", "ERROR"})
                => /\ ws'.pc = "idle"
                   /\ published' = published
                   /\ blitz_order_action' = blitz_order_action]_vars

\* C9 witness: the one input after the accepted place of L1 was a notification
\* for B1 in the unmapped status PENDING, and nothing was published.
C9_Witness ==
    /\ websocket /\ ws.pc = "idle" /\ cmd.pc = "idle"
    /\ nInputs = 2
    /\ motilal_to_blitz["B1"] = "L1"
    /\ brokerOrders["B1"].status = "PENDING"
    /\ blitz_order_action = [l \in LocalIds |-> IF l = "L1" THEN PLACE_ORDER ELSE Null]
    /\ blitz_order_cache["L2"] = "none"
    /\ published = <<>>

\* C10: a step of the resync thread taken with no pending action issues no
\* get_orders call and publishes nothing.
C10_NoPendingNoQuery ==
    [][((\A l \in LocalIds : blitz_order_action[l] = Null)
            /\ rs.pc \in {"idle", "skipped"} /\ rs' # rs)
          => (rs'.pc = "skipped" /\ published' = published)]_vars

\* C10 witness: a tick has returned at its first test after an order was
\* placed and its pending action consumed.
C10_Witness ==
    /\ rs.pc = "skipped"
    /\ \E l \in LocalIds : blitz_order_cache[l] # "none"
    /\ \A l \in LocalIds : blitz_order_action[l] = Null

\* C11: the identity maps of MotilalAdapter stay a one-to-one table keyed by
\* broker ids: no local order id is a key of motilal_to_blitz, and every L
\* with blitz_to_motilal[L] = B has motilal_to_blitz[B] = L.
C11_IdentityMapInvariant ==
    /\ \A l \in LocalIds : motilal_to_blitz[l] = Null
    /\ \A l \in LocalIds :
          blitz_to_motilal[l] # Null => motilal_to_blitz[blitz_to_motilal[l]] = l

\* C12: recording the pair (L,B) a second time, with the arguments of the
\* recording just made, changes neither dictionary nor the number of their
\* entries, and leaves lookupBroker(L) = B and lookupLocal(B) = L.
C12_RecordingIdempotent ==
    [][\A l \in LocalIds, b \in BrokerIds :
          (/\ lastRec.l = l /\ lastRec.b = b /\ lastRec.n = 1
           /\ lastRec'.l = l /\ lastRec'.b = b /\ lastRec'.n = 2)
            => /\ ids'.b2m = ids.b2m
               /\ ids'.m2b = ids.m2b
               /\ Cardinality({k \in DOMAIN ids'.b2m : ids'.b2m[k] # Null})
                    = Cardinality({k \in DOMAIN ids.b2m : ids.b2m[k] # Null})
               /\ Cardinality({k \in DOMAIN ids'.m2b : ids'.m2b[k] # Null})
                    = Cardinality({k \in DOMAIN ids.m2b : ids.m2b[k] # Null})
               /\ ids'.b2m[l] = b
               /\ ids'.m2b[b] = l]_vars

\* C12 witness: (L1,B2) was recorded after L1 had been recorded under B1 and
\* L2 staged, and then recorded again, the dictionaries filled.
C12_Witness ==
    /\ lastRec.l = "L1" /\ lastRec.b = "B2" /\ lastRec.n = 2
    /\ ids.b2m["L1"] = "B2"
    /\ ids.m2b["B1"] = "L1" /\ ids.m2b["B2"] = "L1"
    /\ ids.req["L2"] = "L2"

\* C13: every published event with OrderStatus Filled or PartiallyFilled has
\* LastTradedQuantity > 0 and LastTradedPrice > 0, on the Motilal feed path,
\* the Motilal resync path and the Zerodha COMPLETE branch.
C13_FillsCarryQuantityAndPrice ==
    \A path \in {"feed", "resync", "zerodha"} :
        (mapped[path].pub /\ mapped[path].log.OrderStatus \in {"Filled", "PartiallyFilled"})
            => /\ mapped[path].log.LastTradedQuantity > 0
               /\ mapped[path].log.LastTradedPrice > 0

\* C14: map_status gives, for every (broker status, pending action) pair, the
\* entry of the status table: TRADED, PARTIAL and CANCEL give Filled,
\* PartiallyFilled and Cancelled whatever the action; CONFIRM, and REJECTED or
\* ERROR, give the acknowledgement and the rejection of the pending action;
\* every other pair gives null.
C14_StatusTable ==
    mapped.status.done =>
        mapped.status.v =
            (CASE raw.orderstatus = "TRADED" -> "Filled"
               [] raw.orderstatus = "PARTIAL" -> "PartiallyFilled"
               [] raw.orderstatus = "CANCEL" -> "Cancelled"
               [] raw.orderstatus = "CONFIRM" /\ raw.action = PLACE_ORDER -> "New"
               [] raw.orderstatus = "CONFIRM" /\ raw.action = MODIFY_ORDER -> "Replaced"
               [] raw.orderstatus = "CONFIRM" /\ raw.action = CANCEL_ORDER -> "Cancelled"
               [] raw.orderstatus \in {"REJECTED", "ERROR"} /\ raw.action = PLACE_ORDER
                    -> "Rejected"
               [] raw.orderstatus \in {"REJECTED", "ERROR"} /\ raw.action = MODIFY_ORDER
                    -> "ReplaceRejected"
               [] raw.orderstatus \in {"REJECTED", "ERROR"} /\ raw.action = CANCEL_ORDER
                    -> "CancelRejected"
               [] OTHER -> Null)

\* C14 witness: map_status was applied to ERROR under a pending CANCEL_ORDER.
C14_Witness ==
    /\ mapped.status.done
    /\ raw.orderstatus = "ERROR" /\ raw.action = CANCEL_ORDER
    /\ mapped.status.v = "CancelRejected"

\* C15: when the feed's first acknowledgement of a placed order L is on the
\* bus (OrderStatus New), it is the one event published for L so far.
C15_PlaceThenConfirmOneEvent ==
    \A l \in LocalIds, i \in DOMAIN zpublished :
        (/\ zpublished[i] = Event(l, "New", "ws")
         /\ \A j \in 1..(i - 1) : zpublished[j] # Event(l, "New", "ws"))
            => \A j \in 1..(i - 1) : zpublished[j].lid # l

\* C16: a PLACE_ORDER for L whose REST call comes back with an error and no
\* broker id puts exactly one event on the bus (the bus being up), Rejected
\* for L, and clears the pending action; and once a place of L has come back
\* without a broker id, neither the feed nor the resync publishes for L.
C16_SyncRejectionOnce ==
    [][/\ (\E o \in {"err", "empty"} : PlaceReturn(o, TRUE))
            => /\ published' = Append(published, Event(cmd.lid, "Rejected", "sync"))
               /\ blitz_order_action'[cmd.lid] = Null
       /\ \A l \in LocalIds :
            (/\ blitz_order_cache[l] # "none"
             /\ blitz_to_motilal[l] = Null
             /\ ~(cmd.pc = "place" /\ cmd.lid = l)
             /\ Len(published') = Len(published) + 1)
                => ~(/\ published'[Len(published')].lid = l
                     /\ published'[Len(published')].src \in {"ws", "resync"})]_vars

C18_PathsConverge ==
    (mapped.feed.done /\ mapped.resync.done)
        => /\ mapped.feed.pub = mapped.resync.pub
           /\ mapped.feed.log = mapped.resync.log

\* C19: a MODIFY_ORDER for an order without cached snapshot ends without a
\* call to the broker and with a ReplaceRejected event for that order on the
\* bus.
C19_ModifyWithoutSnapshotRejected ==
    [][\A l \in LocalIds :
          (ModifyBegin(l) /\ blitz_order_cache[l] = "none")
            => /\ cmd'.pc = "idle"
               /\ Len(published') = Len(published) + 1
               /\ published'[Len(published')].lid = l
               /\ published'[Len(published')].status = "ReplaceRejected"]_vars

\* C20: once the feed has learned (B,L) from the tag of an update for an
\* unknown broker id, lookupLocal(B) = L in motilal_to_blitz and
\* lookupBroker(L) = B in blitz_to_motilal.
C20_AutoLearnBothDirections ==
    [][\A b \in BrokerIds, hasAvg \in BOOLEAN :
          (/\ WsReceive(b, TRUE, hasAvg)
           /\ motilal_to_blitz[b] = Null
           /\ brokerOrders[b].owner # Null)
            => /\ motilal_to_blitz'[b] = brokerOrders[b].owner
               /\ blitz_to_motilal'[brokerOrders[b].owner] = b]_vars

\* C21: no exception of process_command reaches the command loop, whatever
\* the payload and whatever the answer of the REST call.
C21_ProcessCommandNeverRaises ==
    caller # "raised"

\* C22: _on_message never raises: whatever the message, the call returns, and
\* a message the handler could not process publishes nothing.
C22_OnMessageNeverRaises ==
    sock.handler # "raised"

\* C23: stop() never raises, whatever the state of the adapter, and after
\* stop() the resync loop and the feed are stopped.
C23_StopNeverRaises ==
    /\ life.stop # "raised"
    /\ life.stop = "returned" => ~life.is_running /\ ~sock.should_run

\* C24: once the broker has sent an authentication-failure ERROR message no
\* reconnect attempt is started any more, and every other disconnect, stop()
\* not called, starts one.
C24_AuthFailureIsTerminal ==
    [][/\ sock.auth_error_seen => sock'.attempts <= sock.attempts
       /\ (FeedOnClose /\ ~sock.auth_error_seen /\ sock.should_run)
             => sock'.attempts = sock.attempts + 1]_vars

\* C25: the k-th consecutive reconnect attempt since the last successful
\* open waits 3, 6, 12, 24, 48, 60, 60, ... time units, never more than 60,
\* and _on_open sets the counter back to 0.
C25_ReconnectBackoff ==
    /\ sock.delay <= 60
    /\ sock.state = "waiting" =>
          sock.delay = CASE sock.attempts = 1 -> 3
                         [] sock.attempts = 2 -> 6
                         [] sock.attempts = 3 -> 12
                         [] sock.attempts = 4 -> 24
                         [] sock.attempts = 5 -> 48
                         [] OTHER -> 60
    /\ sock.state = "open" => sock.reconnect_count = 0

\* A feed that reconnected, opened, and lost the connection again: it waits
\* 3 time units as on the first attempt.
C25_Witness ==
    /\ sock.state = "waiting"
    /\ sock.reopened
    /\ sock.attempts = 1
    /\ sock.delay = 3

\* C26: to_dict of an OrderLog with any fields None has no None value: every
\* integer field is an int, every float field a float, every string field a
\* string, and a field that was None has the default of its type.
C26_ToDictHasNoNull ==
    serialized # NoObject =>
        \A f \in Fields :
            /\ serialized[f].type = TypeOf(f)
            /\ order_log[f].type = "None" => serialized[f].zero

\* An OrderLog with a field set to None beyond those of __init__, serialized.
C26_Witness ==
    /\ serialized # NoObject
    /\ \E f \in Fields \ InitiallyNone : order_log[f].type = "None"
    /\ \E f \in StrFields : order_log[f].type = "None"

\* C27: without a login every PLACE_ORDER, MODIFY_ORDER and CANCEL_ORDER
\* fails fast: no REST call starts and the identity maps, the snapshot cache
\* and the pending actions stay as they were.
C27_LoginFailedFailsFast ==
    [][~order_api =>
          /\ cmd' = IdleCmd
          /\ brokerOrders' = brokerOrders
          /\ blitz_to_motilal' = blitz_to_motilal
          /\ motilal_to_blitz' = motilal_to_blitz
          /\ blitz_order_cache' = blitz_order_cache
          /\ blitz_order_action' = blitz_order_action
          /\ published' = published]_vars

\* Commands were handled without a login.
C27_Witness ==
    ~order_api /\ nInputs = MaxInputs

\* C28: when the REST call of a placement returns success with broker id B
\* for L, then on return of handle_place_order both identity directions
\* hold, the snapshot cache holds the request for L, the pending action of L
\* is PLACE_ORDER, and the handler has published nothing.
C28_AcceptedPlacement ==
    [][\A ok \in BOOLEAN :
          PlaceReturn("ok", ok) =>
              /\ blitz_to_motilal'[cmd.lid] = cmd.bid
              /\ motilal_to_blitz'[cmd.bid] = cmd.lid
              /\ blitz_order_cache'[cmd.lid] = "request"
              /\ blitz_order_action'[cmd.lid] = PLACE_ORDER
              /\ published' = published]_vars

\* C28, with the feed and the resync running during the REST call: on return
\* both identity directions hold, the snapshot cache holds the request, the
\* handler has published nothing and has left the pending action of L as it
\* found it: PLACE_ORDER, or cleared by a publication for L made meanwhile.
C28_AcceptedPlacementKeepsAction ==
    [][\A ok \in BOOLEAN :
          PlaceReturn("ok", ok) =>
              /\ blitz_to_motilal'[cmd.lid] = cmd.bid
              /\ motilal_to_blitz'[cmd.bid] = cmd.lid
              /\ blitz_order_cache'[cmd.lid] = "request"
              /\ blitz_order_action'[cmd.lid] = blitz_order_action[cmd.lid]
              /\ blitz_order_action'[cmd.lid] \in {PLACE_ORDER, Null}
              /\ published' = published]_vars

\* A placement accepted while no feed was running: the handler has returned,
\* the identity is recorded, the action is pending and nothing is published.
C28_Witness ==
    \E l \in LocalIds, b \in BrokerIds :
        /\ ~websocket
        /\ cmd = IdleCmd
        /\ blitz_to_motilal[l] = b
        /\ motilal_to_blitz[b] = l
        /\ blitz_order_cache[l] = "request"
        /\ blitz_order_action[l] = PLACE_ORDER
        /\ published = <<>>

\* C29: the success of a Zerodha CANCEL_ORDER is published only on the async
\* confirmation: _handle_cancel_order publishes no Cancelled, so that with
\* the one Cancelled of the final CANCELLED notification exactly one
\* Cancelled event is published for the order.
C29_OneCancelled ==
    \A l \in LocalIds :
        LET Cancelled(src) == {i \in DOMAIN zpublished :
                                 /\ zpublished[i].lid = l
                                 /\ zpublished[i].status = "Cancelled"
                                 /\ zpublished[i].src \in src}
        IN  /\ Cancelled({"rest"}) = {}
            /\ Cardinality(Cancelled({"ws", "replay"})) <= 1
                  => Cardinality(Cancelled({"rest", "ws", "replay"})) <= 1

\* C30: when handle_cancel_order returns after a synchronous rejection with
\* CancelRejected published for L, the pending action of L is null, so that
\* neither a later resync tick nor a later CONFIRM of the feed maps the
\* still-open order to Cancelled.
C30_CancelRejectedClearsAction ==
    [][\A o \in {"ok", "err", "empty"}, e \in ErrStatuses :
          (/\ CancelReturn(o, e, TRUE)
           /\ Len(published') = Len(published) + 1
           /\ published'[Len(published')].status = "CancelRejected")
            => blitz_order_action'[cmd.lid] = Null]_vars

\* C31: when the feed delivers REJECTED for a broker id mapped to the placed
\* order L, that notification publishes exactly one event, with OrderStatus
\* Rejected, for L.
C31_FeedRejectedPublished ==
    [][\A b \in BrokerIds, u \in ZUpdates :
          (/\ ZWsUpdate(b, u, TRUE)
           /\ u.status = "REJECTED"
           /\ order_request_data[b] # Null)
            => /\ Len(zpublished') = Len(zpublished) + 1
               /\ zpublished'[Len(zpublished')].status = "Rejected"
               /\ zpublished'[Len(zpublished')].lid = order_request_data[b]]_vars

\* C32: the feed and the resync publish Replaced for L only when the price or
\* the quantity of the payload differs from the snapshot cached last; a
\* CONFIRM with equal fields while a MODIFY_ORDER is pending publishes nothing.
C32_ReplacedOnlyOnChange ==
    [][(/\ snap'.last.seq # snap.last.seq
        /\ snap'.last.src \in {"ws", "resync"}
        /\ snap'.last.status = "Replaced")
          => snap.broker.price # snap.cache.price]_vars

\* C33: for an order of the book the resync fetched, a broker id that resolves
\* to L with a snapshot gets the order's lastmodifiedtime into the snapshot
\* whether or not anything is published; with no pending action or an
\* unmapped status nothing is published and the action stays; an unresolved
\* broker id changes nothing.
C33_ResyncPerOrder ==
    [][\A otherPending \in BOOLEAN :
         SnapResync(otherPending) =>
           /\ (snap.m2b /\ snap.cache.kind # "none")
                => snap'.cache.LastModifiedDateTime = snap.broker.lastmodifiedtime
           /\ (snap.action = Null \/ MapStatus(snap.broker.status, snap.action) = Null)
                => snap'.last = snap.last /\ snap'.action = snap.action
           /\ ~snap.m2b => snap' = [snap EXCEPT !.op = "resync"]]_vars

\* The resync stamped the snapshot of an order it published nothing for.
C33_Witness ==
    /\ snap.cache.by = "resync"
    /\ snap.cache.LastModifiedDateTime = snap.broker.lastmodifiedtime
    /\ snap.action = PLACE_ORDER
    /\ snap.last = NoEvent

\* C34: the first CONFIRM that answers an accepted PLACE_ORDER is published as
\* New, also when a MODIFY_ORDER or CANCEL_ORDER for L was handled before it
\* arrived: the later command does not overwrite the pending action.
C34_FirstConfirmIsNew ==
    [][(/\ snap.owed
        /\ snap.broker.status = "CONFIRM"
        /\ snap'.last.seq # snap.last.seq
        /\ snap'.last.src \in {"ws", "resync"})
          => snap'.last.status = "New"]_vars

\* C36: every event the feed or the resync publishes for a broker id that
\* resolves to L carries BlitzAppOrderID = L.
C36_AsyncEventCarriesLocalId ==
    [][(/\ snap'.last.seq # snap.last.seq
        /\ snap'.last.src \in {"ws", "resync"})
          => snap'.last.BlitzAppOrderID = "L1"]_vars

\* C37: every modify call sent to the broker for L carries the lastmodifiedtime
\* of the payload observed last on the feed or by the resync.
C37_ModifySendsLastSeenTime ==
    [][\A p \in SnapPrices, accepted \in BOOLEAN :
         (SnapModify(p, accepted) /\ snap.cache.kind # "none")
           => snap'.sent = snap.seen]_vars

\* C35: an UPDATE notification publishes nothing and has no effect on what is
\* published later: the first OPEN for a placed order is published as New,
\* also when an UPDATE for the order arrived before it.
C35_FirstOpenIsNew ==
    [][\A b \in BrokerIds, u \in ZUpdates :
         (/\ ZWsUpdate(b, u, TRUE)
          /\ u.status = "OPEN"
          /\ order_request_data[b] # Null
          /\ order_state_cache[b].status = Null)
           => /\ Len(zpublished') = Len(zpublished) + 1
              /\ zpublished'[Len(zpublished')].status = "New"
              /\ zpublished'[Len(zpublished')].lid = order_request_data[b]]_vars

\* C38: on every connection of MotilalWebSocket, the first one and each one
\* made by a reconnect, the auth-success message makes the handler send the
\* order and trade subscriptions on that connection, and they are sent at
\* most once per connection.
C38_SubscribesOnEveryConnection ==
    [][/\ FeedOnMessage("auth_success") => sock'.subscriptions = 1
       /\ sock'.subscriptions <= 1]_vars

\* C39: once stop() has returned no new broker connection is opened, also
\* when a reconnect thread had passed its check of the run flag before.
C39_NoConnectionAfterStop ==
    [][(/\ ~sock.should_run
        /\ ~sock'.should_run
        /\ sock.state # "new"
        /\ sock'.state = "connecting")
          => sock.state = "connecting"]_vars

\* C40: a command that process_command queued because of the rate limit is
\* eventually executed by the queue-processor thread while the adapter runs.
C40_QueuedCommandExecuted ==
    \A c \in 1..MaxCommands :
        ((\E i \in 1..Len(limiter.request_queue) : limiter.request_queue[i] = c)
            /\ limiter.is_running)
          ~> ((\E i \in 1..Len(limiter.executed) : limiter.executed[i] = c)
                \/ ~limiter.is_running)

====
